---- MODULE Spec2Model ----
(***************************************************************************)
(* Model of the receipt splitter's split allocation engine,                *)
(* calculate_splits of src/core/split.py.                                  *)
(*                                                                         *)
(* Amounts are Python floats in the code.  The model computes with exact   *)
(* rationals <<numerator, denominator>> in lowest terms, so an equality of *)
(* the model is the code's equality up to floating rounding (the "within   *)
(* epsilon" of the specification).  A pair with denominator 0 stands for   *)
(* the IEEE values inf and NaN, which Python's float division never        *)
(* produces: it raises ZeroDivisionError instead.                          *)
(***************************************************************************)
EXTENDS Integers, Sequences, FiniteSets, TLC

(***************************************************************************)
(* Bounds of the model.                                                    *)
(***************************************************************************)
MaxItems == 2

MaxPeople == 2

(***************************************************************************)
(* Rational arithmetic.                                                    *)
(***************************************************************************)
Abs(n) == IF n < 0 THEN -n ELSE n

RECURSIVE GCD(_, _)
GCD(a, b) == IF b = 0 THEN a ELSE GCD(b, a % b)

Norm(q) ==
    LET n == q[1]
        d == q[2]
    IN  IF d = 0
        THEN <<IF n > 0 THEN 1 ELSE IF n < 0 THEN -1 ELSE 0, 0>>
        ELSE LET g == GCD(Abs(n), Abs(d))
                 s == IF d < 0 THEN -1 ELSE 1
             IN  <<(s * n) \div g, (s * d) \div g>>

Rat(n) == <<n, 1>>

Zero == Rat(0)

One == Rat(1)

RAdd(p, q) ==
    IF p[2] = 0 /\ q[2] = 0
    THEN <<IF p[1] = q[1] THEN p[1] ELSE 0, 0>>
    ELSE Norm(<<p[1] * q[2] + q[1] * p[2], p[2] * q[2]>>)

RNeg(p) == <<-p[1], p[2]>>

RSub(p, q) == RAdd(p, RNeg(q))

RMul(p, q) == Norm(<<p[1] * q[1], p[2] * q[2]>>)

\* p / q as IEEE arithmetic would give it; the caller decides whether a
\* zero divisor raises instead.
RDiv(p, q) == Norm(<<p[1] * q[2], p[2] * q[1]>>)

Finite(p) == p[2] # 0

RECURSIVE RSum(_)
RSum(s) == IF s = <<>> THEN Zero ELSE RAdd(Head(s), RSum(Tail(s)))

\* polars' round(2) of a finite value: the nearest hundredth, a tie away
\* from zero.
Round2(p) ==
    IF p[2] = 0
    THEN p
    ELSE LET a == Abs(p[1])
             h == (2 * 100 * a + p[2]) \div (2 * p[2])
         IN  Norm(<<IF p[1] < 0 THEN -h ELSE h, 100>>)

(***************************************************************************)
(* The requests: the arguments of one call of calculate_splits.            *)
(***************************************************************************)
People == <<"Alice", "Bob", "Charlie", "Dana">>

ItemLabels == <<"Chai", "Naan", "Dosa", "Idli">>

Range(s) == {s[i] : i \in 1..Len(s)}

\* The participants: a comma separated list of names, kept in order.
PeopleLists == {SubSeq(People, 1, n) : n \in 0..MaxPeople}

\* The item names need not be unique: all different, or all the same.
ItemNameLists(k) == {[i \in 1..k |-> ItemLabels[i]], [i \in 1..k |-> ItemLabels[1]]}

ItemAmountLists(k) == {[i \in 1..k |-> Rat(i)]}

\* Each item's participants are ticked in a checkbox group whose choices
\* are the participants: a subset of them, possibly empty.
ItemPeopleLists(k, people_list) == [1..k -> SUBSET Range(people_list)]

TipValues == {Rat(0), Rat(2)}

TaxValues == {Rat(0), Rat(1)}

\* The receipt total is its own input: the grand subtotal total - tip - tax
\* is zero or the sum of the item amounts.
TotalValues(item_amounts, tip, tax) ==
    LET s == RAdd(tip, tax)
    IN  {s, RAdd(s, RSum(item_amounts))}

DiscountValues == {Zero, <<1, 2>>, <<3, 2>>, <<-1, 2>>}

NoRequest == [item_names |-> <<>>]

\* The call of the module's __main__ block: three items over three people.
ExampleItemNames == <<"Item 1", "Item 2", "Item 3">>

ExampleItemAmounts == <<Rat(10), Rat(20), Rat(30)>>

ExampleItemPeople == <<{"Alice", "Bob"}, {"Alice"}, {"Bob", "Charlie"}>>

ExamplePeopleList == <<"Alice", "Bob", "Charlie">>

ExampleDiscount == <<3, 100>>

ExampleRequest(detailed) ==
    [item_names |-> ExampleItemNames, item_people |-> ExampleItemPeople,
     item_amounts |-> ExampleItemAmounts, total |-> Rat(70), tip |-> Rat(6),
     tax |-> Rat(4), people_list |-> ExamplePeopleList,
     tip_split_proportionally |-> TRUE, tax_split_proportionally |-> TRUE,
     cashback_discount |-> ExampleDiscount, return_detailed_table |-> detailed]

\* Names that are also labels of the table: the first column is "Item", the
\* aggregate column and the last row are "Total".
ColumnLabels == {"Item", "Total"}

\* Item names with the first item called "Total".
TotalItemNameLists(k) ==
    {[i \in 1..k |-> IF i = 1 THEN "Total" ELSE ItemLabels[i]]}

\* Participants with the first one called "Item".
ItemPeopleNameLists ==
    {[j \in 1..n |-> IF j = 1 THEN "Item" ELSE People[j]] : n \in 1..MaxPeople}

(***************************************************************************)
(* The steps of calculate_splits, as operators on its arguments and        *)
(* locals.                                                                 *)
(***************************************************************************)
Min(a, b) == IF a <= b THEN a ELSE b

RECURSIVE Join(_, _)
Join(strs, sep) ==
    IF strs = <<>> THEN ""
    ELSE IF Len(strs) = 1 THEN strs[1]
    ELSE strs[1] \o sep \o Join(Tail(strs), sep)

HasSplitOffByOne(split) == Cardinality(split) > 1

\* len(split) > 0
HasSplit(split) == Cardinality(split) > 0

\* The loop over zip(item_names, item_people): <<split_count, unsplit_names>>
\* after the pairs i..n, entered with <<count, names>>.
RECURSIVE ValidateLoop(_, _, _, _, _)
ValidateLoop(item_names, item_people, i, count, names) ==
    IF i > Min(Len(item_names), Len(item_people))
    THEN <<count, names>>
    ELSE IF HasSplit(item_people[i])
         THEN ValidateLoop(item_names, item_people, i + 1, count + 1, names)
         ELSE ValidateLoop(item_names, item_people, i + 1, count,
                           Append(names, item_names[i]))

NeverIncomplete(split_count, checkbox_count) == FALSE

\* split_count != checkbox_count
Incomplete(split_count, checkbox_count) == split_count # checkbox_count

IncompleteSplitError(names) ==
    [kind |-> "IncompleteSplitError",
     message |-> "The following items have not been assigned splits: "
                     \o Join(names, ",")]

ZeroDivisionError == [kind |-> "ZeroDivisionError", message |-> "float division by zero"]

SplitArrayOverAll(split, people_list) ==
    [j \in 1..Len(people_list) |->
        IF people_list[j] \in split THEN RDiv(One, Rat(Len(people_list))) ELSE Zero]

\* [1 / len(split) if x in split else 0.0 for x in people_list]
SplitArray(split, people_list) ==
    [j \in 1..Len(people_list) |->
        IF people_list[j] \in split THEN RDiv(One, Rat(Cardinality(split))) ELSE Zero]

SplitArrays(item_people, people_list) ==
    [i \in 1..Len(item_people) |-> SplitArray(item_people[i], people_list)]

\* [amount * split for split in split_array], over zip(split_arrays, item_amounts)
SplitAmounts(arrays, item_amounts) ==
    [i \in 1..Min(Len(arrays), Len(item_amounts)) |->
        [j \in 1..Len(arrays[i]) |-> RMul(item_amounts[i], arrays[i][j])]]

\* [sum(x) for x in zip(*split_amounts)]: zip of no list at all is empty.
SplitSubtotals(amounts) ==
    IF amounts = <<>>
    THEN <<>>
    ELSE [j \in 1..Len(amounts[1]) |->
            RSum([i \in 1..Len(amounts) |-> amounts[i][j]])]

Subtotal(total, tip, tax) == RSub(RSub(total, tip), tax)

\* Python's float division raises ZeroDivisionError on a zero divisor.
DivisionRaises(divisor) == divisor = Zero

\* x / subtotal * tip if tip_split_proportionally else tax / len(people_list)
TipShare(x, sub, tip, tax, n, proportionally) ==
    IF proportionally THEN RMul(RDiv(x, sub), tip) ELSE RDiv(tax, Rat(n))

\* x / subtotal * tax if tax_split_proportionally else tax / len(people_list)
TaxShare(x, sub, tip, tax, n, proportionally) ==
    IF proportionally THEN RMul(RDiv(x, sub), tax) ELSE RDiv(tax, Rat(n))

\* Whether evaluating the comprehension over split_subtotals raises.
ShareRaises(subtotals, sub, n, proportionally) ==
    /\ subtotals # <<>>
    /\ DivisionRaises(IF proportionally THEN sub ELSE Rat(n))

SplitTotalsPreCashback(subtotals, tips, taxes) ==
    [j \in 1..Min(Len(subtotals), Min(Len(tips), Len(taxes))) |->
        RAdd(RAdd(subtotals[j], tips[j]), taxes[j])]

CashbackAdded(x, discount) == RMul(x, discount)

\* -x * cashback_discount
Cashback(x, discount) == RMul(RNeg(x), discount)

PostCashbackWithoutDiscount(x, discount) == x

\* x * (1 - cashback_discount)
PostCashback(x, discount) == RMul(x, RSub(One, discount))

(***************************************************************************)
(* The table.  A row is its label, its per-person values and its           *)
(* aggregate; the simplified table is one <<person, split>> per column of  *)
(* the "Total" row.                                                        *)
(***************************************************************************)
SummaryLabels == <<"Subtotal", "Tip", "Tax", "Cashback", "Total">>

FirstColNames(item_names) == item_names \o SummaryLabels

Splits(amounts, subtotals, tips, taxes, cashback, post) ==
    amounts \o <<subtotals, tips, taxes, cashback, post>>

HorizontalTotalsOfReceipt(item_amounts, sub, tip, tax, cashback, post) ==
    item_amounts \o <<RAdd(RAdd(sub, tip), tax), tip, tax, RSum(cashback), RSum(post)>>

HorizontalTotals(item_amounts, sub, tip, tax, cashback, post) ==
    item_amounts \o <<sub, tip, tax, RSum(cashback), RSum(post)>>

\* The frame before rounding: one row per label.
Frame(labels, splits, totals) ==
    [i \in 1..Min(Len(labels), Min(Len(splits), Len(totals))) |->
        [Item |-> labels[i], splits |-> splits[i], Total |-> totals[i]]]

RoundRow(row) ==
    [Item |-> row.Item,
     splits |-> [j \in 1..Len(row.splits) |-> Round2(row.splits[j])],
     Total |-> Round2(row.Total)]

FullCalculation(frame) == [i \in 1..Len(frame) |-> RoundRow(frame[i])]

IsTotalRow(row) == row.Item = "Total"

SimpleCalculation(full, people_list) ==
    LET row == SelectSeq(full, IsTotalRow)[1]
        all == [j \in 1..Min(Len(people_list), Len(row.splits)) |->
                   [Person |-> people_list[j], Split |-> row.splits[j]]]
        NotHeader(r) == r.Person # "Item"
    IN  SelectSeq(all, NotHeader)

(***************************************************************************)
(* The state: where the call stands and its local variables.               *)
(***************************************************************************)
VARIABLES pc, req, assigned, unsplit_names, split_arrays, split_amounts, split_subtotals,
          subtotal, split_tips, split_taxes, split_totals_pre_cashback,
          split_cashback, split_totals_post_cashback, result, error

\* The state of a call of SuryaOCR.order_polygons: where it stands, its
\* argument, its locals, what it returned and what it raised.
VARIABLES order_pc, polygons, x_midpoints, y_midpoints, heights, y_ranges,
          idx, line_groups, ordered_text, order_error

split_vars == <<pc, req, assigned, unsplit_names, split_arrays, split_amounts,
                split_subtotals, subtotal, split_tips, split_taxes,
                split_totals_pre_cashback, split_cashback,
                split_totals_post_cashback, result, error>>

order_vars == <<order_pc, polygons, x_midpoints, y_midpoints, heights, y_ranges,
                idx, line_groups, ordered_text, order_error>>

\* A SplitCalculator and the module it lives in: where the caller stands,
\* the object's fields, the module-level name cashback_discount, the locals
\* of the last call of forward, what it returned and raised, whether
\* validate_splits passed on this object, and the outcome of the call of
\* forward before this one on the same object.
VARIABLES calc_pc, calculator, module_cashback_discount, forward_locals,
          forward_result, calc_error, validated, previous_outcome

calc_vars == <<calc_pc, calculator, module_cashback_discount, forward_locals,
               forward_result, calc_error, validated, previous_outcome>>

\* A call of the copy of calculate_splits in the user interface: where it
\* stands, its arguments, its locals, the component it returned, the
\* warning it showed and what it raised.
VARIABLES ui_pc, ui_req, ui_locals, ui_result, ui_warning, ui_error

ui_vars == <<ui_pc, ui_req, ui_locals, ui_result, ui_warning, ui_error>>

\* The people textbox of the interface: whether it was ever submitted, the
\* text last submitted, the image uploader it unlocks, the stored list of
\* names, and the warning the last submission showed.
VARIABLES submitted, people_textbox, image_uploader, people_state, people_warning

people_vars == <<submitted, people_textbox, image_uploader, people_state,
                 people_warning>>

\* A call of LLMExtractor.extract_fields: where it stands, its arguments,
\* the reply of the chat function, the value returned and what it raised.
VARIABLES llm_pc, llm_call, llm_reply, llm_result, llm_error

llm_vars == <<llm_pc, llm_call, llm_reply, llm_result, llm_error>>

\* The variables outside the groups above.
rest_vars == <<calc_vars, ui_vars, people_vars, llm_vars>>

\* The variables outside the SplitCalculator's.
outside_calc == <<split_vars, order_vars, ui_vars, people_vars, llm_vars>>

\* The variables outside the user interface's copy.
outside_ui == <<split_vars, order_vars, calc_vars, people_vars, llm_vars>>

\* The variables outside the people textbox's.
outside_people == <<split_vars, order_vars, calc_vars, ui_vars, llm_vars>>

\* The variables outside the extractor's.
outside_llm == <<split_vars, order_vars, calc_vars, ui_vars, people_vars>>

vars == <<split_vars, order_vars, rest_vars>>

\* The value of a call that returned no table.
None == [kind |-> "None"]

NoError == [kind |-> "none", message |-> ""]

\* No local of the call is assigned: `assigned` names the locals that are.
Unassigned ==
    /\ assigned = {}
    /\ unsplit_names = <<>>
    /\ split_arrays = <<>>
    /\ split_amounts = <<>>
    /\ split_subtotals = <<>>
    /\ subtotal = Zero
    /\ split_tips = <<>>
    /\ split_taxes = <<>>
    /\ split_totals_pre_cashback = <<>>
    /\ split_cashback = <<>>
    /\ split_totals_post_cashback = <<>>

\* A module-level name that no statement has assigned yet; an assigned one
\* is <<value>>.
Undefined == <<>>

\* forward has not been called, or has not returned.
NotCalled == [kind |-> "NotCalled"]

NoLocals ==
    [split_arrays |-> <<>>, split_amounts |-> <<>>, split_subtotals |-> <<>>,
     split_tips |-> <<>>, split_taxes |-> <<>>, split_totals |-> <<>>,
     split_cashback |-> <<>>, split_totals_minus_cashback |-> <<>>]

\* No SplitCalculator has been constructed.
CalcIdle ==
    /\ calc_pc = "idle"
    /\ calculator = NoRequest
    /\ forward_locals = NoLocals
    /\ forward_result = NotCalled
    /\ calc_error = NoError
    /\ validated = FALSE
    /\ previous_outcome = NotCalled

\* create_app: an empty textbox, gr.State([]) and an image uploader that is
\* not interactive.
PeopleInit ==
    /\ submitted = FALSE
    /\ people_textbox = <<>>
    /\ image_uploader = [interactive |-> FALSE]
    /\ people_state = <<>>
    /\ people_warning = ""

\* Python's None, as a value.
PyNone == [type |-> "NoneType"]

\* No value was returned.
NoValue == [type |-> "nothing"]

NoCall == [structured |-> FALSE]

\* No call of extract_fields is under way.
LlmIdle ==
    /\ llm_pc = "idle"
    /\ llm_call = NoCall
    /\ llm_reply = <<>>
    /\ llm_result = NoValue
    /\ llm_error = NoError

NoWarning == [message |-> "", title |-> ""]

\* The locals of the copy when it computed no allocation.
NoAllocation == [unsplit_names |-> <<>>]

\* No call of the copy is under way.
UiIdle ==
    /\ ui_pc = "idle"
    /\ ui_req = NoRequest
    /\ ui_locals = NoAllocation
    /\ ui_result = None
    /\ ui_warning = NoWarning
    /\ ui_error = NoError

\* No call of order_polygons is under way.
OrderIdle ==
    /\ order_pc = "idle"
    /\ polygons = <<>>
    /\ x_midpoints = <<>>
    /\ y_midpoints = <<>>
    /\ heights = <<>>
    /\ y_ranges = <<>>
    /\ idx = 0
    /\ line_groups = <<>>
    /\ ordered_text = <<>>
    /\ order_error = NoError

Init ==
    /\ pc = "idle"
    /\ req = NoRequest
    /\ Unassigned
    /\ result = None
    /\ error = NoError
    /\ OrderIdle
    /\ CalcIdle
    /\ module_cashback_discount = Undefined
    /\ UiIdle
    /\ PeopleInit
    /\ LlmIdle

\* A caller calls calculate_splits with a request.
Call ==
    /\ pc = "idle"
    /\ UNCHANGED <<order_vars, rest_vars>>
    /\ \E k \in 0..MaxItems, people_list \in PeopleLists,
          tip \in TipValues, tax \in TaxValues :
          \E names \in ItemNameLists(k),
             ticked \in ItemPeopleLists(k, people_list),
             amounts \in ItemAmountLists(k),
             flags \in BOOLEAN \X BOOLEAN \X BOOLEAN,
             discount \in DiscountValues :
             \E total \in TotalValues(amounts, tip, tax) :
                req' = [item_names |-> names, item_people |-> ticked,
                        item_amounts |-> amounts, total |-> total, tip |-> tip,
                        tax |-> tax, people_list |-> people_list,
                        tip_split_proportionally |-> flags[1],
                        tax_split_proportionally |-> flags[2],
                        cashback_discount |-> discount,
                        return_detailed_table |-> flags[3]]
    /\ pc' = "validate"
    /\ UNCHANGED <<assigned, unsplit_names, split_arrays, split_amounts,
                   split_subtotals, subtotal, split_tips, split_taxes,
                   split_totals_pre_cashback, split_cashback,
                   split_totals_post_cashback, result, error>>

\* The call of the __main__ block, for either table.
CallExample ==
    /\ pc = "idle"
    /\ UNCHANGED <<order_vars, rest_vars>>
    /\ \E detailed \in BOOLEAN : req' = ExampleRequest(detailed)
    /\ pc' = "validate"
    /\ UNCHANGED <<assigned, unsplit_names, split_arrays, split_amounts,
                   split_subtotals, subtotal, split_tips, split_taxes,
                   split_totals_pre_cashback, split_cashback,
                   split_totals_post_cashback, result, error>>

\* A call whose item names or participant names are labels of the table;
\* no tip, no tax, no discount, and a total that is the sum of the items.
CallColliding ==
    /\ pc = "idle"
    /\ UNCHANGED <<order_vars, rest_vars>>
    /\ \E k \in 1..MaxItems :
          \E names \in ItemNameLists(k) \cup TotalItemNameLists(k),
             people_list \in PeopleLists \cup ItemPeopleNameLists :
             \E ticked \in ItemPeopleLists(k, people_list),
                amounts \in ItemAmountLists(k),
                detailed \in BOOLEAN :
                /\ \/ Range(names) \cap ColumnLabels # {}
                   \/ Range(people_list) \cap ColumnLabels # {}
                /\ req' = [item_names |-> names, item_people |-> ticked,
                           item_amounts |-> amounts, total |-> RSum(amounts),
                           tip |-> Zero, tax |-> Zero,
                           people_list |-> people_list,
                           tip_split_proportionally |-> TRUE,
                           tax_split_proportionally |-> TRUE,
                           cashback_discount |-> Zero,
                           return_detailed_table |-> detailed]
    /\ pc' = "validate"
    /\ UNCHANGED <<assigned, unsplit_names, split_arrays, split_amounts,
                   split_subtotals, subtotal, split_tips, split_taxes,
                   split_totals_pre_cashback, split_cashback,
                   split_totals_post_cashback, result, error>>

\* The check of the splits: raise IncompleteSplitError or go on.
Validate ==
    /\ pc = "validate"
    /\ UNCHANGED <<order_vars, rest_vars>>
    /\ LET done == ValidateLoop(req.item_names, req.item_people, 1, 0, <<>>)
       IN  /\ unsplit_names' = done[2]
           /\ IF Incomplete(done[1], Len(req.item_people))
              THEN /\ error' = IncompleteSplitError(done[2])
                   /\ pc' = "raised"
              ELSE /\ error' = error
                   /\ pc' = "allocate"
    /\ assigned' = assigned \cup {"unsplit_names"}
    /\ UNCHANGED <<req, split_arrays, split_amounts, split_subtotals, subtotal,
                   split_tips, split_taxes, split_totals_pre_cashback,
                   split_cashback, split_totals_post_cashback, result>>

\* The fractions of every item and the amounts they give.
Allocate ==
    /\ pc = "allocate"
    /\ UNCHANGED <<order_vars, rest_vars>>
    /\ split_arrays' = SplitArrays(req.item_people, req.people_list)
    /\ split_amounts' = SplitAmounts(split_arrays', req.item_amounts)
    /\ assigned' = assigned \cup {"split_arrays", "split_amounts"}
    /\ pc' = "subtotals"
    /\ UNCHANGED <<req, unsplit_names, split_subtotals, subtotal, split_tips,
                   split_taxes, split_totals_pre_cashback, split_cashback,
                   split_totals_post_cashback, result, error>>

Subtotals ==
    /\ pc = "subtotals"
    /\ UNCHANGED <<order_vars, rest_vars>>
    /\ split_subtotals' = SplitSubtotals(split_amounts)
    /\ subtotal' = Subtotal(req.total, req.tip, req.tax)
    /\ assigned' = assigned \cup {"split_subtotals", "subtotal"}
    /\ pc' = "tips"
    /\ UNCHANGED <<req, unsplit_names, split_arrays, split_amounts, split_tips,
                   split_taxes, split_totals_pre_cashback, split_cashback,
                   split_totals_post_cashback, result, error>>

Tips ==
    /\ pc = "tips"
    /\ UNCHANGED <<order_vars, rest_vars>>
    /\ IF ShareRaises(split_subtotals, subtotal, Len(req.people_list),
                      req.tip_split_proportionally)
       THEN /\ error' = ZeroDivisionError
            /\ pc' = "raised"
            /\ UNCHANGED <<split_tips, assigned>>
       ELSE /\ split_tips' =
                  [j \in 1..Len(split_subtotals) |->
                      TipShare(split_subtotals[j], subtotal, req.tip, req.tax,
                               Len(req.people_list), req.tip_split_proportionally)]
            /\ assigned' = assigned \cup {"split_tips"}
            /\ pc' = "taxes"
            /\ error' = error
    /\ UNCHANGED <<req, unsplit_names, split_arrays, split_amounts,
                   split_subtotals, subtotal, split_taxes,
                   split_totals_pre_cashback, split_cashback,
                   split_totals_post_cashback, result>>

Taxes ==
    /\ pc = "taxes"
    /\ UNCHANGED <<order_vars, rest_vars>>
    /\ IF ShareRaises(split_subtotals, subtotal, Len(req.people_list),
                      req.tax_split_proportionally)
       THEN /\ error' = ZeroDivisionError
            /\ pc' = "raised"
            /\ UNCHANGED <<split_taxes, assigned>>
       ELSE /\ split_taxes' =
                  [j \in 1..Len(split_subtotals) |->
                      TaxShare(split_subtotals[j], subtotal, req.tip, req.tax,
                               Len(req.people_list), req.tax_split_proportionally)]
            /\ assigned' = assigned \cup {"split_taxes"}
            /\ pc' = "cashback"
            /\ error' = error
    /\ UNCHANGED <<req, unsplit_names, split_arrays, split_amounts,
                   split_subtotals, subtotal, split_tips,
                   split_totals_pre_cashback, split_cashback,
                   split_totals_post_cashback, result>>

CashbackStep ==
    /\ pc = "cashback"
    /\ UNCHANGED <<order_vars, rest_vars>>
    /\ split_totals_pre_cashback' =
           SplitTotalsPreCashback(split_subtotals, split_tips, split_taxes)
    /\ split_cashback' =
           [j \in 1..Len(split_totals_pre_cashback') |->
               Cashback(split_totals_pre_cashback'[j], req.cashback_discount)]
    /\ split_totals_post_cashback' =
           [j \in 1..Len(split_totals_pre_cashback') |->
               PostCashback(split_totals_pre_cashback'[j], req.cashback_discount)]
    /\ assigned' = assigned \cup {"split_totals_pre_cashback", "split_cashback",
                                  "split_totals_post_cashback"}
    /\ pc' = "assemble"
    /\ UNCHANGED <<req, unsplit_names, split_arrays, split_amounts,
                   split_subtotals, subtotal, split_tips, split_taxes, result,
                   error>>

\* The frame, before rounding, that calculate_splits builds from its locals.
CurrentFrame ==
    Frame(FirstColNames(req.item_names),
          Splits(split_amounts, split_subtotals, split_tips, split_taxes,
                 split_cashback, split_totals_post_cashback),
          HorizontalTotals(req.item_amounts, subtotal, req.tip, req.tax,
                           split_cashback, split_totals_post_cashback))

\* list.to_struct(fields=people_list) of lists that are all empty: what
\* polars makes of it depends on its version, a table of nulls or an error.
PolarsError == [kind |-> "PolarsError", message |-> ""]

\* unnest("splits") adds one column per participant to a frame that has the
\* columns "Item" and "Total": a frame cannot hold two columns of one name.
DuplicateColumns(people_list) == Range(people_list) \cap ColumnLabels # {}

\* filter(Item == "Total") keeps every row labelled "Total", the last row
\* and each item of that name; transpose is given the one name "Split".
TotalRows(full) == Len(SelectSeq(full, IsTotalRow))

Assemble ==
    /\ pc = "assemble"
    /\ UNCHANGED <<order_vars, rest_vars>>
    /\ \/ /\ ~DuplicateColumns(req.people_list)
          /\ LET full == FullCalculation(CurrentFrame)
             IN  result' =
                     IF req.return_detailed_table
                     THEN [kind |-> "detailed", rows |-> full,
                           columns |-> <<"Item">> \o req.people_list \o <<"Total">>]
                     ELSE [kind |-> "simple",
                           rows |-> SimpleCalculation(full, req.people_list),
                           columns |-> <<"Person", "Split">>]
          /\ pc' = "done"
          /\ error' = error
       \/ /\ \/ split_amounts = <<>>
             \/ DuplicateColumns(req.people_list)
             \/ /\ ~req.return_detailed_table
                /\ TotalRows(FullCalculation(CurrentFrame)) > 1
          /\ error' = PolarsError
          /\ pc' = "raised"
          /\ result' = result
    /\ UNCHANGED <<req, assigned, unsplit_names, split_arrays, split_amounts,
                   split_subtotals, subtotal, split_tips, split_taxes,
                   split_totals_pre_cashback, split_cashback,
                   split_totals_post_cashback>>

\* The call is over, with a table or an exception; the next one starts
\* from fresh locals.
Return ==
    /\ pc \in {"done", "raised"}
    /\ UNCHANGED <<order_vars, rest_vars>>
    /\ pc' = "idle"
    /\ req' = NoRequest
    /\ assigned' = {}
    /\ unsplit_names' = <<>>
    /\ split_arrays' = <<>>
    /\ split_amounts' = <<>>
    /\ split_subtotals' = <<>>
    /\ subtotal' = Zero
    /\ split_tips' = <<>>
    /\ split_taxes' = <<>>
    /\ split_totals_pre_cashback' = <<>>
    /\ split_cashback' = <<>>
    /\ split_totals_post_cashback' = <<>>
    /\ result' = None
    /\ error' = NoError

Next ==
    \/ Call
    \/ CallExample
    \/ CallColliding
    \/ Validate
    \/ Allocate
    \/ Subtotals
    \/ Tips
    \/ Taxes
    \/ CashbackStep
    \/ Assemble
    \/ Return

Spec == Init /\ [][Next]_vars

(***************************************************************************)
(* SuryaOCR.order_polygons: the bounding polygons of the recognised text,  *)
(* grouped into the lines of the receipt.  A polygon is its four corners,  *)
(* each <<x, y>>; the tokens are numbered from 0 as in the code.           *)
(***************************************************************************)
MaxTokens == 4

\* The longest text submitted in the people textbox.
MaxText == 4

\* An upright box: its top left, top right, bottom right and bottom left
\* corner.
Box(left, top, width, height) ==
    <<<<left, top>>, <<left + width, top>>,
      <<left + width, top + height>>, <<left, top + height>>>>

\* The polygons of the tokens: two on a first line, two on a second line
\* well below, a slanted one and an upright one that overlap the first line
\* in a chain, one of no height and one whose corners run bottom up.
Tokens ==
    {Box(0, 0, 4, 10), Box(5, 1, 4, 10), Box(0, 20, 4, 10), Box(5, 21, 4, 10),
     <<<<5, 1>>, <<9, 3>>, <<10, 13>>, <<6, 11>>>>,
     Box(0, 5, 4, 10), Box(0, 2, 4, 0), Box(5, 0, 4, -10)}

PolygonLists(n) == [1..n -> Tokens]

\* A coordinate that is not a number, such as None or a string: the
\* coordinates of the model are integers, and no arithmetic is done on this
\* one.
NonNumeric == -1000

\* Polygons that are not four points of two numbers: three points, five
\* points, a point of one coordinate, and a coordinate that is not a number
\* in y_1, in y_4 and in x_3.
MalformedPolygons ==
    {<<<<0, 0>>, <<4, 0>>, <<4, 10>>>>,
     <<<<0, 0>>, <<4, 0>>, <<4, 10>>, <<0, 10>>, <<0, 5>>>>,
     <<<<0, 0>>, <<4, 0>>, <<4>>, <<0, 10>>>>,
     <<<<0, NonNumeric>>, <<4, 0>>, <<4, 10>>, <<0, 10>>>>,
     <<<<0, 0>>, <<4, 0>>, <<4, 10>>, <<0, NonNumeric>>>>,
     <<<<0, 0>>, <<4, 0>>, <<NonNumeric, 10>>, <<0, 10>>>>}

\* The well-formed polygons that come with a malformed one.
CompanionPolygons == {Box(0, 0, 4, 10), Box(0, 20, 4, 10)}

\* Lists of n polygons, one of them malformed.
MalformedPolygonLists(n) ==
    {[ps EXCEPT ![k] = m] :
        ps \in [1..n -> CompanionPolygons], k \in 1..n, m \in MalformedPolygons}

\* What the unpacking (x_1, y_1), (x_2, y_2), (x_3, y_3), (x_4, y_4) =
\* tuple(tuple(x) for x in polygon) raises, if anything.
UnpackError(polygon) ==
    IF Len(polygon) > 4
    THEN [kind |-> "ValueError", message |-> "too many values to unpack (expected 4)"]
    ELSE IF Len(polygon) < 4
    THEN [kind |-> "ValueError",
          message |-> "not enough values to unpack (expected 4, got "
                          \o ToString(Len(polygon)) \o ")"]
    ELSE IF \E k \in 1..4 : Len(polygon[k]) > 2
    THEN [kind |-> "ValueError", message |-> "too many values to unpack (expected 2)"]
    ELSE IF \E k \in 1..4 : Len(polygon[k]) < 2
    THEN [kind |-> "ValueError",
          message |-> "not enough values to unpack (expected 2, got "
                          \o ToString(Len(polygon[CHOOSE k \in 1..4 :
                                                      Len(polygon[k]) < 2]))
                          \o ")"]
    ELSE NoError

\* Arithmetic on a coordinate that is not a number.
TypeError == [kind |-> "TypeError", message |-> "unsupported operand type(s)"]

\* What get_centroid_of_bounding_polygon raises: it unpacks the polygon and
\* computes with x_1, x_4, y_1 and y_2.
CentroidError(polygon) ==
    IF UnpackError(polygon) # NoError
    THEN UnpackError(polygon)
    ELSE IF NonNumeric \in {polygon[1][1], polygon[4][1], polygon[1][2], polygon[2][2]}
    THEN TypeError
    ELSE NoError

\* What get_height_of_bounding_polygon raises: it unpacks the polygon and
\* computes with y_4 and y_1.
HeightError(polygon) ==
    IF UnpackError(polygon) # NoError
    THEN UnpackError(polygon)
    ELSE IF NonNumeric \in {polygon[4][2], polygon[1][2]}
    THEN TypeError
    ELSE NoError

\* What the two comprehensions over the polygons raise: the centroids of
\* all polygons are taken first, then their heights.
MeasureError(ps) ==
    IF \E i \in 1..Len(ps) : CentroidError(ps[i]) # NoError
    THEN CentroidError(ps[CHOOSE i \in 1..Len(ps) :
                            /\ CentroidError(ps[i]) # NoError
                            /\ \A h \in 1..(i - 1) : CentroidError(ps[h]) = NoError])
    ELSE IF \E i \in 1..Len(ps) : HeightError(ps[i]) # NoError
    THEN HeightError(ps[CHOOSE i \in 1..Len(ps) :
                          /\ HeightError(ps[i]) # NoError
                          /\ \A h \in 1..(i - 1) : HeightError(ps[h]) = NoError])
    ELSE NoError

\* (x_1 + x_4) / 2, (y_1 + y_2) / 2
get_centroid_of_bounding_polygon(polygon) ==
    <<RDiv(Rat(polygon[1][1] + polygon[4][1]), Rat(2)),
      RDiv(Rat(polygon[1][2] + polygon[2][2]), Rat(2))>>

\* y_4 - y_1
get_height_of_bounding_polygon(polygon) == Rat(polygon[4][2] - polygon[1][2])

threshold == <<3, 5>>

YRangeOfFullHeight(midpoint, height) ==
    <<RSub(midpoint, height), midpoint, RAdd(midpoint, height)>>

YRangeOfAbsHeight(midpoint, height) ==
    LET half == RMul(RMul(<<Abs(height[1]), height[2]>>, threshold), <<1, 2>>)
    IN  <<RSub(midpoint, half), midpoint, RAdd(midpoint, half)>>

\* (midpoint - height * threshold * 0.5, midpoint,
\*  midpoint + height * threshold * 0.5)
YRange(midpoint, height) ==
    LET half == RMul(RMul(height, threshold), <<1, 2>>)
    IN  <<RSub(midpoint, half), midpoint, RAdd(midpoint, half)>>

YRanges(midpoints, hs) ==
    [i \in 1..Min(Len(midpoints), Len(hs)) |-> YRange(midpoints[i], hs[i])]

RLeq(p, q) == p[1] * q[2] <= q[1] * p[2]

WithinLowerHalf(i_range, j_range) ==
    /\ RLeq(i_range[1], j_range[2])
    /\ RLeq(j_range[2], i_range[2])

\* i_range[0] <= j_range[1] <= i_range[2]
Within(i_range, j_range) ==
    /\ RLeq(i_range[1], j_range[2])
    /\ RLeq(j_range[2], i_range[3])

\* line_groups is a dict: its <<key, value>> items in insertion order.
Keys(groups) == {groups[i][1] : i \in 1..Len(groups)}

\* The inner loop of token i over the tokens j, j + 1, ... after it.
RECURSIVE InnerLoop(_, _, _, _)
InnerLoop(groups, ranges, i, j) ==
    IF j >= Len(ranges)
    THEN groups
    ELSE InnerLoop(IF Within(ranges[i + 1], ranges[j + 1]) /\ j \notin Keys(groups)
                   THEN Append(groups, <<j, i>>)
                   ELSE groups,
                   ranges, i, j + 1)

\* One pass of the outer loop, for token i.
OuterLoop(groups, ranges, i) ==
    InnerLoop(IF i \notin Keys(groups) THEN Append(groups, <<i, i>>) ELSE groups,
              ranges, i, i + 1)

\* [(group, key) for key, group in line_groups.items()]
LineGroupsReversed(groups) ==
    [i \in 1..Len(groups) |-> <<groups[i][2], groups[i][1]>>]

\* The groups that hold the token they are keyed by.
BucketKeysOfAnchors(reversed) ==
    LET IsOwn(x) == x[1] = x[2]
        own == SelectSeq(reversed, IsOwn)
    IN  [i \in 1..Len(own) |-> own[i][1]]

\* list(bucket(...)): the groups, each once, in the order they first occur.
RECURSIVE BucketKeys(_)
BucketKeys(reversed) ==
    IF reversed = <<>>
    THEN <<>>
    ELSE LET front == BucketKeys(SubSeq(reversed, 1, Len(reversed) - 1))
             g == reversed[Len(reversed)][1]
         IN  IF g \in Range(front) THEN front ELSE Append(front, g)

\* bucketed_line_groups[key]: the items of one group, in their order.
Bucket(reversed, key) ==
    LET InGroup(x) == x[1] = key
    IN  SelectSeq(reversed, InGroup)

RECURSIVE InsertDescending(_, _)
InsertDescending(k, s) ==
    IF s = <<>> THEN <<k>>
    ELSE IF k > Head(s) THEN <<k>> \o s
    ELSE <<Head(s)>> \o InsertDescending(k, Tail(s))

RECURSIVE SortedDescending(_)
SortedDescending(keys) ==
    IF keys = <<>>
    THEN <<>>
    ELSE InsertDescending(keys[Len(keys)],
                          SortedDescending(SubSeq(keys, 1, Len(keys) - 1)))

RECURSIVE InsertKey(_, _)
InsertKey(k, s) ==
    IF s = <<>> THEN <<k>>
    ELSE IF k < Head(s) THEN <<k>> \o s
    ELSE <<Head(s)>> \o InsertKey(k, Tail(s))

\* sorted(keys), of integers.
RECURSIVE Sorted(_)
Sorted(keys) ==
    IF keys = <<>>
    THEN <<>>
    ELSE InsertKey(keys[Len(keys)], Sorted(SubSeq(keys, 1, Len(keys) - 1)))

\* The place of an item in a list sorted by x_midpoints[x[1]]: behind every
\* item whose midpoint is not larger.
RECURSIVE InsertByMidpoint(_, _, _)
InsertByMidpoint(x, s, midpoints) ==
    IF s = <<>> THEN <<x>>
    ELSE IF ~RLeq(midpoints[Head(s)[2] + 1], midpoints[x[2] + 1]) THEN <<x>> \o s
    ELSE <<Head(s)>> \o InsertByMidpoint(x, Tail(s), midpoints)

UnsortedByMidpoint(idx_group, midpoints) == idx_group

\* sorted(idx_group, key=lambda x: x_midpoints[x[1]]): a stable sort.
RECURSIVE SortedByMidpoint(_, _)
SortedByMidpoint(idx_group, midpoints) ==
    IF idx_group = <<>>
    THEN <<>>
    ELSE InsertByMidpoint(idx_group[Len(idx_group)],
                          SortedByMidpoint(SubSeq(idx_group, 1, Len(idx_group) - 1),
                                           midpoints),
                          midpoints)

\* The lines: for each group in sorted order, the indices of its tokens
\* sorted by their x midpoint.
OrderedText(groups, midpoints) ==
    LET reversed == LineGroupsReversed(groups)
        keys == Sorted(BucketKeys(reversed))
    IN  [k \in 1..Len(keys) |->
            LET sorted_list == SortedByMidpoint(Bucket(reversed, keys[k]), midpoints)
            IN  [m \in 1..Len(sorted_list) |-> sorted_list[m][2]]]

\* The whole loop: the passes for the tokens i, i + 1, ... in turn.
RECURSIVE OuterLoopFrom(_, _, _)
OuterLoopFrom(groups, ranges, i) ==
    IF i >= Len(ranges)
    THEN groups
    ELSE OuterLoopFrom(OuterLoop(groups, ranges, i), ranges, i + 1)

\* What order_polygons returns for one polygon or more.
order_polygons(ps) ==
    LET xs == [i \in 1..Len(ps) |-> get_centroid_of_bounding_polygon(ps[i])[1]]
        ys == [i \in 1..Len(ps) |-> get_centroid_of_bounding_polygon(ps[i])[2]]
        hs == [i \in 1..Len(ps) |-> get_height_of_bounding_polygon(ps[i])]
    IN  OrderedText(OuterLoopFrom(<<>>, YRanges(ys, hs), 0), xs)

\* x_midpoints, y_midpoints = zip(*[]) has nothing to unpack.
ValueError ==
    [kind |-> "ValueError",
     message |-> "not enough values to unpack (expected 2, got 0)"]

\* A caller hands the polygons of an image to order_polygons.
OrderCall ==
    /\ order_pc = "idle"
    /\ \E n \in 0..MaxTokens : \E ps \in PolygonLists(n) : polygons' = ps
    /\ order_pc' = "measure"
    /\ UNCHANGED <<x_midpoints, y_midpoints, heights, y_ranges, idx, line_groups,
                   ordered_text, order_error>>
    /\ UNCHANGED <<split_vars, rest_vars>>

\* A caller hands over polygons of which one is malformed.
OrderCallMalformed ==
    /\ order_pc = "idle"
    /\ \E n \in 1..MaxTokens : \E ps \in MalformedPolygonLists(n) : polygons' = ps
    /\ order_pc' = "measure"
    /\ UNCHANGED <<x_midpoints, y_midpoints, heights, y_ranges, idx, line_groups,
                   ordered_text, order_error>>
    /\ UNCHANGED <<split_vars, rest_vars>>

\* The midpoints, heights and y ranges of the polygons.
Measure ==
    /\ order_pc = "measure"
    /\ IF polygons = <<>>
       THEN /\ order_error' = ValueError
            /\ order_pc' = "raised"
            /\ UNCHANGED <<x_midpoints, y_midpoints, heights, y_ranges>>
       ELSE IF MeasureError(polygons) # NoError
       THEN /\ order_error' = MeasureError(polygons)
            /\ order_pc' = "raised"
            /\ UNCHANGED <<x_midpoints, y_midpoints, heights, y_ranges>>
       ELSE /\ x_midpoints' = [i \in 1..Len(polygons) |->
                                  get_centroid_of_bounding_polygon(polygons[i])[1]]
            /\ y_midpoints' = [i \in 1..Len(polygons) |->
                                  get_centroid_of_bounding_polygon(polygons[i])[2]]
            /\ heights' = [i \in 1..Len(polygons) |->
                              get_height_of_bounding_polygon(polygons[i])]
            /\ y_ranges' = YRanges(y_midpoints', heights')
            /\ order_pc' = "group"
            /\ UNCHANGED order_error
    /\ UNCHANGED <<polygons, idx, line_groups, ordered_text>>
    /\ UNCHANGED <<split_vars, rest_vars>>

\* One pass of the loop over the tokens, for the token idx.
Group ==
    /\ order_pc = "group"
    /\ idx < Len(y_ranges)
    /\ line_groups' = OuterLoop(line_groups, y_ranges, idx)
    /\ idx' = idx + 1
    /\ order_pc' = IF idx + 1 < Len(y_ranges) THEN "group" ELSE "emit"
    /\ UNCHANGED <<polygons, x_midpoints, y_midpoints, heights, y_ranges,
                   ordered_text, order_error>>
    /\ UNCHANGED <<split_vars, rest_vars>>

\* The groups are bucketed, sorted and returned.
Emit ==
    /\ order_pc = "emit"
    /\ ordered_text' = OrderedText(line_groups, x_midpoints)
    /\ order_pc' = "done"
    /\ UNCHANGED <<polygons, x_midpoints, y_midpoints, heights, y_ranges, idx,
                   line_groups, order_error>>
    /\ UNCHANGED <<split_vars, rest_vars>>

\* The call is over, with its lines or an exception.
OrderReturn ==
    /\ order_pc \in {"done", "raised"}
    /\ order_pc' = "idle"
    /\ polygons' = <<>>
    /\ x_midpoints' = <<>>
    /\ y_midpoints' = <<>>
    /\ heights' = <<>>
    /\ y_ranges' = <<>>
    /\ idx' = 0
    /\ line_groups' = <<>>
    /\ ordered_text' = <<>>
    /\ order_error' = NoError
    /\ UNCHANGED <<split_vars, rest_vars>>

OrderNext ==
    \/ OrderCall
    \/ OrderCallMalformed
    \/ Measure
    \/ Group
    \/ Emit
    \/ OrderReturn

OrderSpec == Init /\ [][OrderNext]_vars

(***************************************************************************)
(* SplitCalculator: the class form of the calculation.  A caller           *)
(* constructs it with the arguments of calculate_splits, may call          *)
(* validate_splits, and calls forward; the module's __main__ block, when   *)
(* the module is run as a script, assigns the module-level names.          *)
(***************************************************************************)
\* The participants ticked for one item of a SplitCalculator or of the
\* interface's copy: nobody, the first participant alone, or everybody.
TickedChoices(people_list) ==
    {{}, Range(SubSeq(people_list, 1, Min(1, Len(people_list)))), Range(people_list)}

ItemPeopleChoices(k, people_list) == [1..k -> TickedChoices(people_list)]

NameError ==
    [kind |-> "NameError", message |-> "name 'cashback_discount' is not defined"]

\* __init__ on the arguments args: the arguments, kept as fields, and the
\* three derived fields.
SplitCalculator(args) ==
    [item_names |-> args.item_names, item_people |-> args.item_people,
     item_amounts |-> args.item_amounts, receipt_total |-> args.receipt_total,
     receipt_tip |-> args.receipt_tip, receipt_tax |-> args.receipt_tax,
     people_list |-> args.people_list,
     tip_split_proportionally |-> args.tip_split_proportionally,
     tax_split_proportionally |-> args.tax_split_proportionally,
     cashback_discount |-> args.cashback_discount,
     return_detailed_table |-> args.return_detailed_table,
     subtotal |-> RSub(RSub(args.receipt_total, args.receipt_tip), args.receipt_tax),
     split_tips |-> None, split_taxes |-> None]

\* validate_splits: the names it would raise IncompleteSplitError with, and
\* whether it raises.
ValidateSplitsNames(self) ==
    ValidateLoop(self.item_names, self.item_people, 1, 0, <<>>)[2]

ValidateSplitsRaises(self) ==
    ValidateLoop(self.item_names, self.item_people, 1, 0, <<>>)[1]
        # Len(self.item_people)

\* distribute_amount: x / self.subtotal * amount if
\* self.tax_split_proportionally else amount / len(self.people_list)
distribute_amount(self, amount, subtotals) ==
    [j \in 1..Len(subtotals) |->
        IF self.tax_split_proportionally
        THEN RMul(RDiv(subtotals[j], self.subtotal), amount)
        ELSE RDiv(amount, Rat(Len(self.people_list)))]

\* Whether the comprehension of distribute_amount divides by zero.
DistributeRaises(self, subtotals) ==
    /\ subtotals # <<>>
    /\ DivisionRaises(IF self.tax_split_proportionally
                      THEN self.subtotal
                      ELSE Rat(Len(self.people_list)))

\* subtract_cashback looks the bare name cashback_discount up in the module,
\* once per element of split_totals: with no element it is never looked up.
SubtractRaises(global, split_totals) ==
    split_totals # <<>> /\ global = Undefined

\* subtract_cashback: <<split_cashback, split_totals_minus_cashback>>
subtract_cashback(global, split_totals) ==
    <<[j \in 1..Len(split_totals) |-> RMul(RNeg(split_totals[j]), global[1])],
      [j \in 1..Len(split_totals) |->
          RMul(split_totals[j], RSub(One, global[1]))]>>

\* The locals of forward up to its calls of distribute_amount.
ForwardAllocation(self) ==
    LET arrays == SplitArrays(self.item_people, self.people_list)
        amounts == SplitAmounts(arrays, self.item_amounts)
    IN  [NoLocals EXCEPT !.split_arrays = arrays, !.split_amounts = amounts,
                         !.split_subtotals = SplitSubtotals(amounts)]

\* The locals of forward up to its call of subtract_cashback.
ForwardTotals(self) ==
    LET alloc == ForwardAllocation(self)
        tips == distribute_amount(self, self.receipt_tip, alloc.split_subtotals)
        taxes == distribute_amount(self, self.receipt_tax, alloc.split_subtotals)
    IN  [alloc EXCEPT !.split_tips = tips, !.split_taxes = taxes,
                      !.split_totals =
                          SplitTotalsPreCashback(alloc.split_subtotals, tips, taxes)]

\* The module is run as a script: its __main__ block assigns the
\* module-level names, cashback_discount = 0.03 among them.
MainBlock ==
    /\ module_cashback_discount = Undefined
    /\ module_cashback_discount' = <<ExampleDiscount>>
    /\ UNCHANGED outside_calc
    /\ UNCHANGED <<calc_pc, calculator, forward_locals, forward_result,
                   calc_error, validated, previous_outcome>>

\* A caller constructs a SplitCalculator.
Construct ==
    /\ calc_pc = "idle"
    /\ UNCHANGED outside_calc
    /\ \E k \in 0..MaxItems, people_list \in PeopleLists, tip \in TipValues,
          discount \in {<<1, 2>>} :
          \E ticked \in ItemPeopleChoices(k, people_list),
             amounts \in ItemAmountLists(k),
             flags \in BOOLEAN \X BOOLEAN \X BOOLEAN :
             \E total \in TotalValues(amounts, tip, One) :
                calculator' =
                    SplitCalculator(
                        [item_names |-> [i \in 1..k |-> ItemLabels[i]],
                         item_people |-> ticked, item_amounts |-> amounts,
                         receipt_total |-> total, receipt_tip |-> tip,
                         receipt_tax |-> One, people_list |-> people_list,
                         tip_split_proportionally |-> flags[1],
                         tax_split_proportionally |-> flags[2],
                         cashback_discount |-> discount,
                         return_detailed_table |-> flags[3]])
    /\ calc_pc' = "constructed"
    /\ UNCHANGED <<module_cashback_discount, forward_locals, forward_result,
                   calc_error, validated, previous_outcome>>

\* The caller calls validate_splits: it raises or returns nothing.
ValidateSplits ==
    /\ calc_pc = "constructed"
    /\ UNCHANGED outside_calc
    /\ IF ValidateSplitsRaises(calculator)
       THEN /\ calc_error' = IncompleteSplitError(ValidateSplitsNames(calculator))
            /\ calc_pc' = "raised"
            /\ validated' = validated
       ELSE /\ validated' = TRUE
            /\ UNCHANGED <<calc_error, calc_pc>>
    /\ UNCHANGED <<calculator, module_cashback_discount, forward_locals,
                   forward_result, previous_outcome>>

\* The caller calls forward: the whole method, to the exception it raises
\* or to its end, which has no return statement.
Forward ==
    /\ calc_pc = "constructed"
    /\ UNCHANGED outside_calc
    /\ LET alloc == ForwardAllocation(calculator)
           totals == ForwardTotals(calculator)
       IN  IF DistributeRaises(calculator, alloc.split_subtotals)
           THEN /\ forward_locals' = alloc
                /\ calc_error' = ZeroDivisionError
                /\ calc_pc' = "raised"
                /\ forward_result' = forward_result
           ELSE IF SubtractRaises(module_cashback_discount, totals.split_totals)
           THEN /\ forward_locals' = totals
                /\ calc_error' = NameError
                /\ calc_pc' = "raised"
                /\ forward_result' = forward_result
           ELSE /\ LET pair == subtract_cashback(module_cashback_discount,
                                                 totals.split_totals)
                   IN  forward_locals' =
                           [totals EXCEPT !.split_cashback = pair[1],
                                          !.split_totals_minus_cashback = pair[2]]
                /\ forward_result' = None
                /\ calc_pc' = "returned"
                /\ calc_error' = calc_error
    /\ UNCHANGED <<calculator, module_cashback_discount, validated,
                   previous_outcome>>

\* What the caller of forward saw: the value returned and the exception.
ForwardOutcome == [returned |-> forward_result, raised |-> calc_error]

ForwardWasCalled ==
    forward_result # NotCalled \/ calc_error.kind \in {"ZeroDivisionError", "NameError"}

\* The caller keeps the object for another call.
CallAgain ==
    /\ calc_pc \in {"returned", "raised"}
    /\ UNCHANGED outside_calc
    /\ calc_pc' = "constructed"
    /\ previous_outcome' =
           IF ForwardWasCalled THEN ForwardOutcome ELSE previous_outcome
    /\ forward_locals' = NoLocals
    /\ forward_result' = NotCalled
    /\ calc_error' = NoError
    /\ UNCHANGED <<calculator, module_cashback_discount, validated>>

\* The caller drops the object.
Discard ==
    /\ calc_pc \in {"constructed", "returned", "raised"}
    /\ UNCHANGED outside_calc
    /\ calc_pc' = "idle"
    /\ calculator' = NoRequest
    /\ forward_locals' = NoLocals
    /\ forward_result' = NotCalled
    /\ calc_error' = NoError
    /\ validated' = FALSE
    /\ previous_outcome' = NotCalled
    /\ UNCHANGED module_cashback_discount

CalculatorNext ==
    \/ MainBlock
    \/ Construct
    \/ ValidateSplits
    \/ Forward
    \/ CallAgain
    \/ Discard

CalculatorSpec == Init /\ [][CalculatorNext]_vars

(***************************************************************************)
(* The copy of calculate_splits in the user interface, translated from its *)
(* own text: it warns and returns a hidden component where the core        *)
(* raises, and wraps its table in a visible component.                     *)
(***************************************************************************)
\* The loop over zip(item_names, item_people) of the copy:
\* <<split_count, unsplit_names>> after the pairs i..n.
RECURSIVE UiValidateLoop(_, _, _, _, _)
UiValidateLoop(item_names, item_people, i, count, names) ==
    IF i > Len(item_names) \/ i > Len(item_people)
    THEN <<count, names>>
    ELSE IF Cardinality(item_people[i]) > 0
         THEN UiValidateLoop(item_names, item_people, i + 1, count + 1, names)
         ELSE UiValidateLoop(item_names, item_people, i + 1, count,
                             Append(names, item_names[i]))

\* gr.Warning(f"Pending splits: {','.join(unsplit_names)}", title=...)
PendingSplits(names) ==
    [message |-> "Pending splits: " \o Join(names, ","),
     title |-> "Can't show splits yet"]

\* pl.DataFrame(): a frame of no column and no row.
EmptyFrame == [kind |-> "empty", rows |-> <<>>, columns |-> <<>>]

\* gr.DataFrame(value, visible=...)
DataFrame(value, visible) == [value |-> value, visible |-> visible]

\* [1 / len(split) if x in split else 0.0 for x in people_list], per item
UiSplitArrays(item_people, people_list) ==
    [i \in 1..Len(item_people) |->
        [j \in 1..Len(people_list) |->
            IF people_list[j] \in item_people[i]
            THEN RDiv(One, Rat(Cardinality(item_people[i])))
            ELSE Zero]]

\* [[amount * split for split in split_array] for ... in zip(split_arrays,
\* item_amounts)]
UiSplitAmounts(arrays, item_amounts) ==
    [i \in 1..(IF Len(arrays) <= Len(item_amounts) THEN Len(arrays)
               ELSE Len(item_amounts)) |->
        [j \in 1..Len(arrays[i]) |-> RMul(item_amounts[i], arrays[i][j])]]

\* [sum(x) for x in zip(*split_amounts)]
UiSplitSubtotals(amounts) ==
    IF Len(amounts) = 0
    THEN <<>>
    ELSE [j \in 1..Len(amounts[1]) |->
            RSum([i \in 1..Len(amounts) |-> amounts[i][j]])]

UiTipShareOfTip(x, r) ==
    IF r.tip_split_proportionally
    THEN RMul(RDiv(x, RSub(RSub(r.total, r.tip), r.tax)), r.tip)
    ELSE RDiv(r.tip, Rat(Len(r.people_list)))

\* x / subtotal * tip if tip_split_proportionally else tax / len(people_list)
UiTipShare(x, r) ==
    IF r.tip_split_proportionally
    THEN RMul(RDiv(x, RSub(RSub(r.total, r.tip), r.tax)), r.tip)
    ELSE RDiv(r.tax, Rat(Len(r.people_list)))

\* x / subtotal * tax if tax_split_proportionally else tax / len(people_list)
UiTaxShare(x, r) ==
    IF r.tax_split_proportionally
    THEN RMul(RDiv(x, RSub(RSub(r.total, r.tip), r.tax)), r.tax)
    ELSE RDiv(r.tax, Rat(Len(r.people_list)))

\* Whether a comprehension over split_subtotals divides by zero.
UiShareRaises(subtotals, r, proportionally) ==
    /\ Len(subtotals) > 0
    /\ IF proportionally
       THEN RSub(RSub(r.total, r.tip), r.tax) = Zero
       ELSE Len(r.people_list) = 0

\* The locals of the copy from split_arrays to split_totals_post_cashback.
UiAllocation(r) ==
    LET arrays == UiSplitArrays(r.item_people, r.people_list)
        amounts == UiSplitAmounts(arrays, r.item_amounts)
        subtotals == UiSplitSubtotals(amounts)
        tips == [j \in 1..Len(subtotals) |-> UiTipShare(subtotals[j], r)]
        taxes == [j \in 1..Len(subtotals) |-> UiTaxShare(subtotals[j], r)]
        pre == [j \in 1..Len(subtotals) |->
                   RAdd(RAdd(subtotals[j], tips[j]), taxes[j])]
    IN  [unsplit_names |-> <<>>, split_arrays |-> arrays,
         split_amounts |-> amounts, split_subtotals |-> subtotals,
         subtotal |-> RSub(RSub(r.total, r.tip), r.tax),
         split_tips |-> tips, split_taxes |-> taxes,
         split_totals_pre_cashback |-> pre,
         split_cashback |->
             [j \in 1..Len(pre) |-> RMul(RNeg(pre[j]), r.cashback_discount)],
         split_totals_post_cashback |->
             [j \in 1..Len(pre) |-> RMul(pre[j], RSub(One, r.cashback_discount))]]

\* first_col_names, splits and horizontal_totals of the copy, as the frame
\* pl.DataFrame makes of them, unnested and rounded.
UiFullCalculation(r, l) ==
    LET first_col_names ==
            r.item_names \o <<"Subtotal", "Tip", "Tax", "Cashback", "Total">>
        splits ==
            l.split_amounts \o
                <<l.split_subtotals, l.split_tips, l.split_taxes,
                  l.split_cashback, l.split_totals_post_cashback>>
        horizontal_totals ==
            r.item_amounts \o
                <<l.subtotal, r.tip, r.tax, RSum(l.split_cashback),
                  RSum(l.split_totals_post_cashback)>>
    IN  FullCalculation(Frame(first_col_names, splits, horizontal_totals))

\* The table the copy wraps: full_calculation_df or simple_calculation.
UiTable(r, l) ==
    IF r.return_detailed_table
    THEN [kind |-> "detailed", rows |-> UiFullCalculation(r, l),
          columns |-> <<"Item">> \o r.people_list \o <<"Total">>]
    ELSE [kind |-> "simple",
          rows |-> SimpleCalculation(UiFullCalculation(r, l), r.people_list),
          columns |-> <<"Person", "Split">>]

\* The interface calls the copy: the whole function, to the component it
\* returns or the exception it raises.
UiCalculateSplits ==
    /\ ui_pc = "idle"
    /\ UNCHANGED outside_ui
    /\ \E k \in 0..MaxItems, people_list \in PeopleLists,
          tip \in TipValues, tax \in {One} :
          \E ticked \in ItemPeopleChoices(k, people_list),
             amounts \in ItemAmountLists(k),
             flags \in BOOLEAN \X BOOLEAN \X BOOLEAN,
             discount \in {<<1, 2>>} :
             \E total \in TotalValues(amounts, tip, tax) :
                ui_req' = [item_names |-> [i \in 1..k |-> ItemLabels[i]],
                           item_people |-> ticked, item_amounts |-> amounts,
                           total |-> total, tip |-> tip, tax |-> tax,
                           people_list |-> people_list,
                           tip_split_proportionally |-> flags[1],
                           tax_split_proportionally |-> flags[2],
                           cashback_discount |-> discount,
                           return_detailed_table |-> flags[3]]
    /\ LET done == UiValidateLoop(ui_req'.item_names, ui_req'.item_people, 1, 0, <<>>)
           l == UiAllocation(ui_req')
       IN  IF done[1] # Len(ui_req'.item_people)
           THEN /\ ui_warning' = PendingSplits(done[2])
                /\ ui_result' = DataFrame(EmptyFrame, FALSE)
                /\ ui_locals' = [unsplit_names |-> done[2]]
                /\ ui_pc' = "returned"
                /\ ui_error' = ui_error
           ELSE IF \/ UiShareRaises(l.split_subtotals, ui_req',
                                    ui_req'.tip_split_proportionally)
                   \/ UiShareRaises(l.split_subtotals, ui_req',
                                    ui_req'.tax_split_proportionally)
           THEN /\ ui_error' = ZeroDivisionError
                /\ ui_pc' = "raised"
                /\ ui_locals' = NoAllocation
                /\ UNCHANGED <<ui_result, ui_warning>>
           ELSE \/ /\ ui_result' = DataFrame(UiTable(ui_req', l), TRUE)
                   /\ ui_locals' = l
                   /\ ui_pc' = "returned"
                   /\ UNCHANGED <<ui_warning, ui_error>>
                \/ /\ l.split_amounts = <<>>
                   /\ ui_error' = PolarsError
                   /\ ui_locals' = l
                   /\ ui_pc' = "raised"
                   /\ UNCHANGED <<ui_result, ui_warning>>

\* The interface has shown the component or the error; the next call starts
\* afresh.
UiReturn ==
    /\ ui_pc \in {"returned", "raised"}
    /\ UNCHANGED outside_ui
    /\ ui_pc' = "idle"
    /\ ui_req' = NoRequest
    /\ ui_locals' = NoAllocation
    /\ ui_result' = None
    /\ ui_warning' = NoWarning
    /\ ui_error' = NoError

UiNext ==
    \/ UiCalculateSplits
    \/ UiReturn

UiSpec == Init /\ [][UiNext]_vars

(***************************************************************************)
(* The people textbox: SplitAIApp.validate_people_list runs on every       *)
(* submission.  A text is the sequence of its characters.                  *)
(***************************************************************************)
Characters == {"a", "b", ",", " "}

\* The characters str.strip() removes.
Whitespace == {" "}

Texts == UNION {[1..n -> Characters] : n \in 0..MaxText}

\* "," in people_textbox
RECURSIVE In(_, _)
In(c, text) ==
    IF text = <<>> THEN FALSE
    ELSE IF Head(text) = c THEN TRUE
    ELSE In(c, Tail(text))

\* people_textbox[-1]
LastOf(text) == text[Len(text)]

\* text.split(sep): the pieces between the separators, with `piece` the
\* piece under way; a text of n separators has n + 1 pieces.
RECURSIVE SplitFrom(_, _, _)
SplitFrom(text, sep, piece) ==
    IF text = <<>> THEN <<piece>>
    ELSE IF Head(text) = sep
         THEN <<piece>> \o SplitFrom(Tail(text), sep, <<>>)
         ELSE SplitFrom(Tail(text), sep, Append(piece, Head(text)))

Split(text, sep) == SplitFrom(text, sep, <<>>)

RECURSIVE LStrip(_)
LStrip(x) ==
    IF x # <<>> /\ Head(x) \in Whitespace THEN LStrip(Tail(x)) ELSE x

RECURSIVE RStrip(_)
RStrip(x) ==
    IF x # <<>> /\ x[Len(x)] \in Whitespace
    THEN RStrip(SubSeq(x, 1, Len(x) - 1))
    ELSE x

StripOfLeft(x) == LStrip(x)

\* x.strip()
Strip(x) == RStrip(LStrip(x))

NeedNames == "You need to enter a list of names separated by commas."

\* validate_people_list: <<interactive of the gr.Image, people_list, warning>>
validate_people_list(text) ==
    IF In(",", text) /\ LastOf(text) # ","
    THEN LET pieces == Split(text, ",")
         IN  <<TRUE, [i \in 1..Len(pieces) |-> Strip(pieces[i])], "">>
    ELSE <<FALSE, <<>>, NeedNames>>

\* The user submits the textbox: the handler's two outputs replace the
\* uploader's attribute and the stored list.
Submit ==
    /\ UNCHANGED outside_people
    /\ \E text \in Texts :
          /\ people_textbox' = text
          /\ LET out == validate_people_list(text)
             IN  /\ image_uploader' = [interactive |-> out[1]]
                 /\ people_state' = out[2]
                 /\ people_warning' = out[3]
    /\ submitted' = TRUE

PeopleNext == Submit

PeopleSpec == Init /\ [][PeopleNext]_vars

(***************************************************************************)
(* LLMExtractor.extract_fields.  The reply of the chat function is the     *)
(* sequence of its JSON tokens; json.loads is a parser of them into        *)
(* Python values.                                                          *)
(***************************************************************************)
PyInt(n) == [type |-> "int", value |-> n]

PyStr(x) == [type |-> "str", value |-> x]

PyList(items) == [type |-> "list", items |-> items]

\* A dict is its <<key, value>> pairs in insertion order.
PyDict(items) == [type |-> "dict", items |-> items]

NumberTokens == {"0", "1"}

NumberValue(t) == IF t = "0" THEN 0 ELSE 1

StringTokens == {"\"amount\"", "\"name\""}

StringValue(t) == IF t = "\"amount\"" THEN "amount" ELSE "name"

\* d[key] = value: an existing key keeps its place and takes the value.
RECURSIVE Put(_, _, _)
Put(items, key, value) ==
    IF items = <<>> THEN <<<<key, value>>>>
    ELSE IF Head(items)[1] = key THEN <<<<key, value>>>> \o Tail(items)
    ELSE <<Head(items)>> \o Put(Tail(items), key, value)

HasKey(items, key) == \E i \in 1..Len(items) : items[i][1] = key

Lookup(items, key) == items[CHOOSE i \in 1..Len(items) : items[i][1] = key][2]

\* The result of parsing a prefix of the tokens: whether a value was read,
\* the value, and the tokens after it.
Fail == [ok |-> FALSE, value |-> PyNone, rest |-> <<>>]

Read(value, rest) == [ok |-> TRUE, value |-> value, rest |-> rest]

RECURSIVE ParseValue(_)
RECURSIVE ParseElements(_, _)
RECURSIVE ParseMembers(_, _)

\* One JSON value at the head of the tokens.
ParseValue(ts) ==
    IF ts = <<>> THEN Fail
    ELSE LET t == Head(ts)
             r == Tail(ts)
         IN  IF t = "null" THEN Read(PyNone, r)
             ELSE IF t \in NumberTokens THEN Read(PyInt(NumberValue(t)), r)
             ELSE IF t \in StringTokens THEN Read(PyStr(StringValue(t)), r)
             ELSE IF t = "["
                  THEN IF r # <<>> /\ Head(r) = "]"
                       THEN Read(PyList(<<>>), Tail(r))
                       ELSE ParseElements(r, <<>>)
             ELSE IF t = "{"
                  THEN IF r # <<>> /\ Head(r) = "}"
                       THEN Read(PyDict(<<>>), Tail(r))
                       ELSE ParseMembers(r, <<>>)
             ELSE Fail

\* The elements of an array after its "[" or a ",", up to its "]".
ParseElements(ts, items) ==
    LET v == ParseValue(ts)
    IN  IF ~v.ok \/ v.rest = <<>> THEN Fail
        ELSE IF Head(v.rest) = ","
             THEN ParseElements(Tail(v.rest), Append(items, v.value))
        ELSE IF Head(v.rest) = "]"
             THEN Read(PyList(Append(items, v.value)), Tail(v.rest))
        ELSE Fail

\* The members of an object after its "{" or a ",", up to its "}".
ParseMembers(ts, items) ==
    IF Len(ts) < 2 \/ Head(ts) \notin StringTokens \/ ts[2] # ":"
    THEN Fail
    ELSE LET v == ParseValue(SubSeq(ts, 3, Len(ts)))
             put == Put(items, StringValue(Head(ts)), v.value)
         IN  IF ~v.ok \/ v.rest = <<>> THEN Fail
             ELSE IF Head(v.rest) = ","
                  THEN ParseMembers(Tail(v.rest), put)
             ELSE IF Head(v.rest) = "}"
                  THEN Read(PyDict(put), Tail(v.rest))
             ELSE Fail

\* json.loads(message): one value and nothing after it, or JSONDecodeError.
JsonLoads(message) ==
    LET v == ParseValue(message)
    IN  IF v.ok /\ v.rest = <<>> THEN v ELSE Fail

\* The replies of the chat function.
Replies ==
    {<<>>,
     <<"null">>,
     <<"1">>,
     <<"\"name\"">>,
     <<"[", "]">>,
     <<"{", "}">>,
     <<"[", "1", ",", "0", "]">>,
     <<"{", "\"amount\"", ":", "1", "}">>,
     <<"{", "\"amount\"", ":", "null", "}">>,
     <<"{", "\"name\"", ":", "\"name\"", "}">>,
     <<"{", "\"amount\"", ":", "1", ",", "\"amount\"", ":", "0", "}">>,
     <<"{", "\"amount\"", ":", "[", "{", "\"name\"", ":", "1", "}", "]", "}">>,
     <<"{", "\"amount\"", ":", "1">>,
     <<"{", "\"amount\"", "1", "}">>,
     <<"{", "1", ":", "1", "}">>,
     <<"[", "1", ",", "]">>,
     <<"1", "1">>,
     <<"}">>}

\* key_to_extract: None, or a key.
NoKey == <<>>

KeysToExtract == {NoKey, <<"amount">>, <<"name">>}

DefaultValues == {PyNone, PyList(<<>>), PyInt(0)}

\* ollama's error of a chat that failed, an unknown model for one.
ResponseError == [kind |-> "ResponseError", message |-> ""]

KeyError(key) == [kind |-> "KeyError", message |-> key]

\* output[key] of a value that is no dict: a str or a list wants integer
\* indices, an int has no items.
SubscriptError == [kind |-> "TypeError", message |-> "subscript"]

\* get_chat_response of a reply: the parsed value, None for a reply that
\* does not parse, or the reply as it is when no format was asked for.
get_chat_response(message, structured) ==
    IF structured
    THEN IF JsonLoads(message).ok THEN JsonLoads(message).value ELSE PyNone
    ELSE [type |-> "str", value |-> message]

\* The caller calls extract_fields: the whole method, with the chat
\* function raising or replying.
ExtractFields ==
    /\ llm_pc = "idle"
    /\ UNCHANGED outside_llm
    /\ \E structured \in BOOLEAN, key \in KeysToExtract, default \in DefaultValues :
          /\ llm_call' = [structured |-> structured, key_to_extract |-> key,
                          default_value |-> default]
          /\ \/ /\ llm_error' = ResponseError
                /\ llm_pc' = "raised"
                /\ UNCHANGED <<llm_reply, llm_result>>
             \/ \E message \in Replies :
                   /\ llm_reply' = message
                   /\ LET output == get_chat_response(message, structured)
                      IN  IF output = PyNone
                          THEN /\ llm_result' = default
                               /\ llm_pc' = "returned default"
                               /\ llm_error' = llm_error
                          ELSE IF key = NoKey
                          THEN /\ llm_result' = output
                               /\ llm_pc' = "returned output"
                               /\ llm_error' = llm_error
                          ELSE IF output.type # "dict"
                          THEN /\ llm_error' = SubscriptError
                               /\ llm_pc' = "raised"
                               /\ llm_result' = llm_result
                          ELSE IF ~HasKey(output.items, key[1])
                          THEN /\ llm_error' = KeyError(key[1])
                               /\ llm_pc' = "raised"
                               /\ llm_result' = llm_result
                          ELSE /\ llm_result' = Lookup(output.items, key[1])
                               /\ llm_pc' = "returned output"
                               /\ llm_error' = llm_error

\* The call is over.
LlmReturn ==
    /\ llm_pc # "idle"
    /\ UNCHANGED outside_llm
    /\ llm_pc' = "idle"
    /\ llm_call' = NoCall
    /\ llm_reply' = <<>>
    /\ llm_result' = NoValue
    /\ llm_error' = NoError

LlmNext ==
    \/ ExtractFields
    \/ LlmReturn

LlmSpec == Init /\ [][LlmNext]_vars

(***************************************************************************)
(* Vocabulary of the claims.                                               *)
(***************************************************************************)
InCall == pc # "idle"

\* Every item of the request has at least one participant.
Validated(r) == \A i \in 1..Len(r.item_people) : r.item_people[i] # {}

\* The names of the items nobody is assigned to, in item order.
RECURSIVE NamesOfEmpty(_, _)
NamesOfEmpty(item_names, item_people) ==
    IF item_names = <<>> \/ item_people = <<>>
    THEN <<>>
    ELSE (IF Head(item_people) = {} THEN <<Head(item_names)>> ELSE <<>>)
             \o NamesOfEmpty(Tail(item_names), Tail(item_people))

\* C1: a request with at least one item without participants ends in
\* IncompleteSplitError, whose message lists exactly the names of those
\* items, in item order, and returns no table.
C1_IncompleteSplitListsUnassigned ==
    (InCall /\ pc # "validate" /\ ~Validated(req)) =>
        /\ pc = "raised"
        /\ error.kind = "IncompleteSplitError"
        /\ error.message = "The following items have not been assigned splits: "
                               \o Join(NamesOfEmpty(req.item_names, req.item_people), ",")
        /\ unsplit_names = NamesOfEmpty(req.item_names, req.item_people)
        /\ result = None

\* An IncompleteSplitError for a request that has both assigned and
\* unassigned items.
C1_Witness ==
    /\ pc = "raised"
    /\ error.kind = "IncompleteSplitError"
    /\ Len(unsplit_names) >= 1
    /\ Len(unsplit_names) < Len(req.item_names)

\* C3: for every item of a validated request, the amounts allocated to the
\* members of people_list (the item amount times 1/|S_k| for the item's
\* participants, times 0 for the others) add up to the item's amount.
C3_ItemAmountFullyAllocated ==
    "split_amounts" \in assigned =>
        \A i \in 1..Len(req.item_amounts) :
            /\ RSum(split_amounts[i]) = req.item_amounts[i]
            /\ \A j \in 1..Len(req.people_list) :
                   (req.people_list[j] \notin req.item_people[i]) =>
                       split_amounts[i][j] = Zero

\* The amounts are allocated for a request with an item shared by two
\* people and an item one of the participants has no part in.
C3_Witness ==
    /\ "split_amounts" \in assigned
    /\ \E i \in 1..Len(req.item_people) : Cardinality(req.item_people[i]) >= 2
    /\ \E i \in 1..Len(req.item_people) :
           Cardinality(req.item_people[i]) < Len(req.people_list)

\* C9: the check for items without participants comes before any
\* allocation: during a call on a request with such an item no fraction,
\* amount, subtotal, tip share, tax share or cashback value is ever
\* assigned, so no fraction 1/|S_k| is taken of an empty S_k.
C9_ValidationBeforeAllocation ==
    /\ (InCall /\ ~Validated(req)) => assigned \subseteq {"unsplit_names"}
    /\ (InCall /\ assigned # {}) => "unsplit_names" \in assigned

\* The call has stopped on the check, on a request whose first item has
\* participants and another has none, with nothing else computed.
C9_Witness ==
    /\ pc = "raised"
    /\ ~Validated(req)
    /\ req.item_people[1] # {}
    /\ assigned = {"unsplit_names"}
    /\ split_arrays = <<>>

RLess(p, q) == p[1] * q[2] < q[1] * p[2]

\* The grand subtotal of a request: receipt_total - tip - tax.
GrandSubtotal(r) == RSub(RSub(r.total, r.tip), r.tax)

\* The item amounts add up to the grand subtotal.
Consistent(r) == RSum(r.item_amounts) = GrandSubtotal(r)

\* A cashback_discount in [0, 1).
ValidDiscount(d) == ~RLess(d, Zero) /\ RLess(d, One)

\* C10: for every participant, cashback = -(subtotal + tip share + tax
\* share) * cashback_discount and the post-cashback total is (subtotal +
\* tip share + tax share) * (1 - cashback_discount), which is the
\* pre-cashback total plus the cashback.
C10_CashbackOfPreCashbackTotal ==
    "split_cashback" \in assigned =>
        /\ Len(split_cashback) = Len(split_subtotals)
        /\ Len(split_totals_post_cashback) = Len(split_subtotals)
        /\ \A j \in 1..Len(split_subtotals) :
               LET pre == RAdd(split_subtotals[j], RAdd(split_tips[j], split_taxes[j]))
               IN  /\ split_totals_pre_cashback[j] = pre
                   /\ split_cashback[j] = RNeg(RMul(pre, req.cashback_discount))
                   /\ split_totals_post_cashback[j] =
                          RSub(pre, RMul(pre, req.cashback_discount))
                   /\ split_totals_post_cashback[j] =
                          RAdd(split_totals_pre_cashback[j], split_cashback[j])

\* The cashback of a participant who owes something, at a discount
\* strictly between 0 and 1.
C10_Witness ==
    /\ "split_cashback" \in assigned
    /\ RLess(Zero, req.cashback_discount)
    /\ RLess(req.cashback_discount, One)
    /\ \E j \in 1..Len(split_cashback) : RLess(split_cashback[j], Zero)

\* The values of a returned table.
TableValues(t) ==
    UNION { IF t.kind = "detailed"
            THEN {t.rows[i].Total} \cup Range(t.rows[i].splits)
            ELSE {t.rows[i].Split} : i \in 1..Len(t.rows) }

\* C7: whenever the grand subtotal is zero and tip or tax is split
\* proportionally, the call ends in a division-by-zero error and returns no
\* table, and no returned table holds a NaN or an infinite value.  Stated
\* for the requests that pass validation, with participants and a discount
\* in [0, 1).
C7_ZeroSubtotalRaises ==
    /\ ( /\ pc \in {"done", "raised"}
         /\ Validated(req)
         /\ req.people_list # <<>>
         /\ ValidDiscount(req.cashback_discount)
         /\ GrandSubtotal(req) = Zero
         /\ (req.tip_split_proportionally \/ req.tax_split_proportionally) )
       => (pc = "raised" /\ error = ZeroDivisionError /\ result = None)
    /\ pc = "done" => \A v \in TableValues(result) : Finite(v)

\* What holds of C7: with at least one item, so that there is a per-person
\* subtotal to divide, the call ends in ZeroDivisionError and no table; and
\* no returned table holds a NaN or an infinite value.
ZeroSubtotalRaisesWithItems ==
    /\ ( /\ pc \in {"done", "raised"}
         /\ Validated(req)
         /\ Len(req.item_people) >= 1
         /\ GrandSubtotal(req) = Zero
         /\ (req.tip_split_proportionally \/ req.tax_split_proportionally) )
       => (pc = "raised" /\ error = ZeroDivisionError /\ result = None)
    /\ pc = "done" => \A v \in TableValues(result) : Finite(v)
    /\ pc = "raised" => result = None

\* C2: for a validated request, whatever the two flags, the post-cashback
\* totals of the participants add up to receipt_total * (1 -
\* cashback_discount).  Stated for the requests with at least one item whose
\* item amounts add up to receipt_total - tip - tax and whose discount is
\* in [0, 1).
C2_TotalsAddUpToDiscountedReceipt ==
    ( /\ "split_totals_post_cashback" \in assigned
      /\ Len(req.item_amounts) >= 1
      /\ Consistent(req)
      /\ ValidDiscount(req.cashback_discount) )
    => RSum(split_totals_post_cashback) =
           RMul(req.total, RSub(One, req.cashback_discount))

\* C4: when tip_split_proportionally is false, every participant's tip
\* share is tip / N, N the length of people_list.
C4_EqualTipShare ==
    ("split_tips" \in assigned /\ ~req.tip_split_proportionally) =>
        \A j \in 1..Len(split_tips) :
            split_tips[j] = RDiv(req.tip, Rat(Len(req.people_list)))

\* C5: in the table of a validated request every row's per-participant
\* values add up to the row's aggregate 'Total', before rounding.  Stated
\* for the requests with at least one item whose item amounts add up to
\* receipt_total - tip - tax and whose discount is in [0, 1).
C5_RowsAddUpToAggregate ==
    ( /\ pc = "assemble"
      /\ Len(req.item_amounts) >= 1
      /\ Consistent(req)
      /\ ValidDiscount(req.cashback_discount) ) =>
        \A i \in 1..Len(CurrentFrame) :
            RSum(CurrentFrame[i].splits) = CurrentFrame[i].Total

\* The Tip row and the Tax row calculate_splits computes for a request
\* that passes validation and meets no division by zero.
TipRow(r) ==
    LET subtotals == SplitSubtotals(SplitAmounts(SplitArrays(r.item_people, r.people_list),
                                                r.item_amounts))
    IN  [j \in 1..Len(subtotals) |->
            TipShare(subtotals[j], GrandSubtotal(r), r.tip, r.tax,
                     Len(r.people_list), r.tip_split_proportionally)]

TaxRow(r) ==
    LET subtotals == SplitSubtotals(SplitAmounts(SplitArrays(r.item_people, r.people_list),
                                                r.item_amounts))
    IN  [j \in 1..Len(subtotals) |->
            TaxShare(subtotals[j], GrandSubtotal(r), r.tip, r.tax,
                     Len(r.people_list), r.tax_split_proportionally)]

\* The request with another tax amount and tax flag, receipt_total moved
\* so that the grand subtotal is the same; likewise for the tip.
WithTax(r, tax, flag) ==
    [r EXCEPT !.tax = tax, !.tax_split_proportionally = flag,
              !.total = RAdd(RSub(r.total, r.tax), tax)]

WithTip(r, tip, flag) ==
    [r EXCEPT !.tip = tip, !.tip_split_proportionally = flag,
              !.total = RAdd(RSub(r.total, r.tip), tip)]

\* C6: the Tip row does not depend on the tax amount and tax flag, nor the
\* Tax row on the tip amount and tip flag: a request that differs only in
\* these (the grand subtotal kept) has the same row.
C6_TipAndTaxIndependent ==
    /\ "split_tips" \in assigned =>
           \A tax \in TaxValues, flag \in BOOLEAN :
               TipRow(WithTax(req, tax, flag)) = split_tips
    /\ "split_taxes" \in assigned =>
           \A tip \in TipValues, flag \in BOOLEAN :
               TaxRow(WithTip(req, tip, flag)) = split_taxes

\* C8: a request whose cashback_discount is outside [0, 1) is rejected
\* with InvalidDiscountError before anything is computed, and returns no
\* table.  Stated for the requests with items that all have participants.
C8_InvalidDiscountRejected ==
    ( /\ InCall
      /\ Len(req.item_people) >= 1
      /\ Validated(req)
      /\ ~ValidDiscount(req.cashback_discount) ) =>
        /\ "split_arrays" \notin assigned
        /\ pc # "done"
        /\ result = None
        /\ pc = "raised" => error.kind = "InvalidDiscountError"

\* The returned table of a call that asked for the detailed one.
Detailed == pc = "done" /\ result.kind = "detailed"

\* C11: the detailed table of a validated request with k items has k + 5
\* rows, labelled with the item names in input order and then Subtotal,
\* Tip, Tax, Cashback, Total; its aggregate column holds, to the cent, each
\* item's amount, total - tip - tax, the tip, the tax, the sum of the
\* per-person cashback and the sum of the per-person post-cashback totals;
\* its columns are the participants in people_list order, between the
\* label column and the aggregate column.
C11_DetailedTableLayout ==
    Detailed =>
        LET k == Len(req.item_names)
            rows == result.rows
        IN  /\ Len(rows) = k + 5
            /\ \A i \in 1..k :
                  /\ rows[i].Item = req.item_names[i]
                  /\ rows[i].Total = Round2(req.item_amounts[i])
            /\ <<rows[k + 1].Item, rows[k + 2].Item, rows[k + 3].Item,
                  rows[k + 4].Item, rows[k + 5].Item>>
                   = <<"Subtotal", "Tip", "Tax", "Cashback", "Total">>
            /\ rows[k + 1].Total = Round2(RSub(RSub(req.total, req.tip), req.tax))
            /\ rows[k + 2].Total = Round2(req.tip)
            /\ rows[k + 3].Total = Round2(req.tax)
            /\ rows[k + 4].Total = Round2(RSum(split_cashback))
            /\ rows[k + 5].Total = Round2(RSum(split_totals_post_cashback))
            /\ result.columns = <<"Item">> \o req.people_list \o <<"Total">>
            /\ k >= 1 =>
                  \A i \in 1..(k + 5) : Len(rows[i].splits) = Len(req.people_list)

C11_Witness ==
    /\ Detailed
    /\ Len(req.item_names) = 2
    /\ Len(req.people_list) = 2
    /\ req.tip # Zero
    /\ req.tax # Zero
    /\ req.cashback_discount = <<1, 2>>
    /\ req.item_names[1] = req.item_names[2]

\* The call asked for the simplified table, passed the check of the splits
\* and computed every participant's post-cashback total, and is over.
SimpleOver ==
    /\ pc \in {"done", "raised"}
    /\ ~req.return_detailed_table
    /\ Len(req.item_names) >= 1
    /\ "split_totals_post_cashback" \in assigned

\* One row per participant, its name and its post-cashback total to the cent.
OneRowPerParticipant ==
    /\ pc = "done"
    /\ result.kind = "simple"
    /\ result.rows =
           [j \in 1..Len(req.people_list) |->
               [Person |-> req.people_list[j],
                Split |-> Round2(split_totals_post_cashback[j])]]

\* C12: whatever the item names and the participant names are, a validated
\* request for the simplified table returns one row per participant, in
\* people_list order, with the participant's name and post-cashback total.
C12_SimpleTableWhateverNames == SimpleOver => OneRowPerParticipant

\* It does when no item and no participant bears a label of the table.
SimpleTableWithoutCollision ==
    (/\ SimpleOver
     /\ Range(req.item_names) \cap ColumnLabels = {}
     /\ Range(req.people_list) \cap ColumnLabels = {}) => OneRowPerParticipant

\* The call is the one of the __main__ block.
IsExample == \E detailed \in BOOLEAN : req = ExampleRequest(detailed)

\* C13: for the items (Item 1, 10, {Alice, Bob}), (Item 2, 20, {Alice}),
\* (Item 3, 30, {Bob, Charlie}), total 70, tip 6, tax 4, participants Alice,
\* Bob, Charlie, both splits proportional and a discount of 0.03, the three
\* post-cashback totals add up to 67.9 = 70 * 0.97.
C13_ExampleSumsTo67_9 ==
    (IsExample /\ "split_totals_post_cashback" \in assigned) =>
        /\ Len(split_totals_post_cashback) = 3
        /\ RSum(split_totals_post_cashback) = <<679, 10>>
        /\ RSum(split_totals_post_cashback) = RMul(Rat(70), <<97, 100>>)

C13_Witness ==
    /\ IsExample
    /\ pc = "done"
    /\ result.kind = "simple"
    /\ Len(result.rows) = 3

(***************************************************************************)
(* Vocabulary of the claims about order_polygons.                          *)
(***************************************************************************)
\* The call of order_polygons is over, with its lines or an exception.
OrderOver == order_pc \in {"done", "raised"}

\* The group a token was assigned to in line_groups.
GroupOf(groups, j) == groups[CHOOSE i \in 1..Len(groups) : groups[i][1] = j][2]

\* The token indices of the argument, from 0.
TokenIndices == 0..(Len(polygons) - 1)

\* A polygon that is not four points of two numbers each.
Malformed(polygon) ==
    \/ Len(polygon) # 4
    \/ \E k \in 1..Len(polygon) : Len(polygon[k]) # 2
    \/ \E k \in 1..Len(polygon) : NonNumeric \in Range(polygon[k])

\* Every polygon of the argument is well-formed.
WellFormedInput == \A i \in 1..Len(polygons) : ~Malformed(polygons[i])

\* C14: order_polygons returns the empty sequence for no token and one line
\* holding the token's index for exactly one token.
C14_DegenerateInputs ==
    (OrderOver /\ WellFormedInput /\ Len(polygons) <= 1) =>
        /\ order_pc = "done"
        /\ ordered_text = IF polygons = <<>> THEN <<>> ELSE <<<<0>>>>

\* It does for one token.
SingleTokenIsOneLine ==
    (OrderOver /\ WellFormedInput /\ Len(polygons) = 1) =>
        /\ order_pc = "done"
        /\ ordered_text = <<<<0>>>>

\* Twice the y centroid of token i, and its height: y_1 + y_2 and y_4 - y_1.
TwiceYc(i) == polygons[i + 1][1][2] + polygons[i + 1][2][2]

HeightOf(i) == polygons[i + 1][4][2] - polygons[i + 1][1][2]

\* low_i <= y_c(j) <= high_i for the band y_c(i) -+ 0.3 * height(i) of token
\* i, in twentieths.
InBand(i, j) ==
    /\ 10 * TwiceYc(i) - 6 * HeightOf(i) <= 10 * TwiceYc(j)
    /\ 10 * TwiceYc(j) <= 10 * TwiceYc(i) + 6 * HeightOf(i)

\* The earlier tokens whose band holds the y centroid of token j.
EarlierInBand(j) == {i \in 0..(j - 1) : InBand(i, j)}

SetMin(S) == CHOOSE m \in S : \A n \in S : m <= n

\* The loop over the tokens has run to its end.
Grouped == order_pc \in {"emit", "done"}

\* Every token that is assigned is keyed by the smallest earlier token whose
\* band holds its y centroid, or by itself if there is none; that token's
\* pass of the loop is over.
AssignedToSmallestInBand ==
    \A j \in Keys(line_groups) :
        IF EarlierInBand(j) \cap 0..(idx - 1) = {}
        THEN GroupOf(line_groups, j) = j /\ EarlierInBand(j) = {}
        ELSE GroupOf(line_groups, j) = SetMin(EarlierInBand(j))

\* A token that is assigned stays assigned, to the same group, until the
\* call returns.
NeverReassigned ==
    order_pc' # "idle" =>
        \A j \in Keys(line_groups) :
            /\ j \in Keys(line_groups')
            /\ GroupOf(line_groups', j) = GroupOf(line_groups, j)

\* C15: every token j is assigned to the group keyed by the smallest index
\* i < j with low_i <= y_c(j) <= high_i, where [low_i, high_i] is
\* y_c(i) -+ 0.3 * height(i), and to the group keyed by itself if there is
\* no such i; once assigned, a token is never reassigned.
C15_SmallestEarlierBand ==
    /\ [](AssignedToSmallestInBand /\ (Grouped => Keys(line_groups) = TokenIndices))
    /\ [][NeverReassigned]_vars

\* Four tokens are grouped: one in the band of two earlier tokens and keyed
\* by the first of them, one in no earlier band and keyed by itself.
C15_Witness ==
    /\ order_pc = "done"
    /\ Len(polygons) = 4
    /\ \E j \in TokenIndices :
          /\ Cardinality(EarlierInBand(j)) >= 2
          /\ GroupOf(line_groups, j) = SetMin(EarlierInBand(j))
    /\ \E j \in TokenIndices :
          /\ j > 0
          /\ EarlierInBand(j) = {}
          /\ GroupOf(line_groups, j) = j

\* The key of an emitted line: the group its tokens were assigned to.
KeyOfLine(line) == GroupOf(line_groups, line[1])

\* A token is an anchor when it is keyed by itself.
IsAnchor(i) == GroupOf(line_groups, i) = i

\* C16: a token is only ever absorbed by an anchor: every token is its own
\* anchor or is assigned to a strictly earlier token that is an anchor
\* itself, and every emitted line holds its anchor.
C16_AbsorbedOnlyByAnchors ==
    /\ Grouped =>
          \A j \in TokenIndices :
              \/ IsAnchor(j)
              \/ /\ GroupOf(line_groups, j) < j
                 /\ IsAnchor(GroupOf(line_groups, j))
    /\ order_pc = "done" =>
          \A k \in 1..Len(ordered_text) :
              KeyOfLine(ordered_text[k]) \in Range(ordered_text[k])

\* Every token is keyed by itself or by a strictly earlier token.
KeyedByEarlierToken ==
    \A j \in Keys(line_groups) : GroupOf(line_groups, j) <= j

\* The anchor of a line that holds one: its token of smallest index, since
\* an anchor absorbs later tokens only.
FirstOfLine(line) == SetMin(Range(line))

\* C17: the lines are emitted in ascending order of their anchor's original
\* index: of two consecutive lines, the anchor of the first has the smaller
\* index.
C17_LinesInAnchorOrder ==
    order_pc = "done" =>
        \A k \in 1..(Len(ordered_text) - 1) :
            FirstOfLine(ordered_text[k]) < FirstOfLine(ordered_text[k + 1])

\* The lines are emitted in ascending order of the key of their group.
LinesInKeyOrder ==
    order_pc = "done" =>
        \A k \in 1..(Len(ordered_text) - 1) :
            KeyOfLine(ordered_text[k]) < KeyOfLine(ordered_text[k + 1])

\* Twice the x centroid of token i: x_1 + x_4.
TwiceXc(i) == polygons[i + 1][1][1] + polygons[i + 1][4][1]

\* C18: inside every returned line the tokens are in ascending order of
\* their x centroid (x_1 + x_4) / 2, and tokens of equal x centroid are in
\* their input order, the smaller index first.
C18_LineSortedByXCentroid ==
    order_pc = "done" =>
        \A k \in 1..Len(ordered_text) :
            \A m \in 1..(Len(ordered_text[k]) - 1) :
                LET a == ordered_text[k][m]
                    b == ordered_text[k][m + 1]
                IN  \/ TwiceXc(a) < TwiceXc(b)
                    \/ TwiceXc(a) = TwiceXc(b) /\ a < b

\* A returned line of three tokens or more, with two tokens of equal x
\* centroid and a token that comes before one of smaller index.
C18_Witness ==
    /\ order_pc = "done"
    /\ \E k \in 1..Len(ordered_text) :
          LET line == ordered_text[k]
          IN  /\ Len(line) >= 3
              /\ \E m \in 1..(Len(line) - 1) :
                    TwiceXc(line[m]) = TwiceXc(line[m + 1])
              /\ \E m \in 1..(Len(line) - 1) : line[m] > line[m + 1]

\* Two tokens lie within each other's band.
SameLine(a, b) == InBand(a, b) /\ InBand(b, a)

\* Two tokens lie outside each other's band.
Apart(a, b) == ~InBand(a, b) /\ ~InBand(b, a)

\* The pairs {a, b} of the four tokens that make two stacked lines with the
\* other two tokens.
StackedPairs ==
    {P \in SUBSET TokenIndices :
        /\ Cardinality(P) = 2
        /\ \A a, b \in P : SameLine(a, b)
        /\ \A a, b \in TokenIndices \ P : SameLine(a, b)
        /\ \A a \in P : \A b \in TokenIndices \ P : Apart(a, b)}

\* Four tokens of positive height that form two stacked lines of two.
TwoStackedLines ==
    /\ Len(polygons) = 4
    /\ \A i \in TokenIndices : HeightOf(i) > 0
    /\ StackedPairs # {}

\* C19: four tokens of positive height that form two stacked lines of two
\* tokens each (the tokens of a line within each other's band, the tokens of
\* different lines outside each other's band) come back, in whatever order
\* they are given, as exactly 2 lines, each the 2 tokens of one of the lines
\* from left to right.
C19_TwoStackedLines ==
    (order_pc = "done" /\ TwoStackedLines) =>
        /\ Len(ordered_text) = 2
        /\ {Range(ordered_text[1]), Range(ordered_text[2])} = StackedPairs
        /\ \A k \in 1..2 :
              /\ Len(ordered_text[k]) = 2
              /\ TwiceXc(ordered_text[k][1]) <= TwiceXc(ordered_text[k][2])

\* Four different tokens in two stacked lines, given line by line in
\* alternation and from right to left.
C19_Witness ==
    /\ order_pc = "done"
    /\ TwoStackedLines
    /\ Cardinality(Range(polygons)) = 4
    /\ {0, 2} \in StackedPairs
    /\ TwiceXc(0) > TwiceXc(2)
    /\ TwiceXc(1) > TwiceXc(3)
    /\ Len(ordered_text) = 2

\* The tokens in another order: token i of the new order is token pi[i] of
\* the argument.
Permuted(pi) == [i \in 1..Len(polygons) |-> polygons[pi[i] + 1]]

\* The argument with the tokens k and k + 1 swapped.
SwapAt(k) ==
    [i \in 1..Len(polygons) |->
        IF i = k + 1 THEN k + 1 ELSE IF i = k + 2 THEN k ELSE i - 1]

\* The lines as sets of tokens of the argument, for the lines returned on
\* the permuted argument.
LinesAsSets(lines, pi) ==
    {{pi[lines[k][m] + 1] : m \in 1..Len(lines[k])} : k \in 1..Len(lines)}

Identity == [i \in 1..Len(polygons) |-> i - 1]

\* C20: the grouping does not depend on the order of the tokens: two
\* permutations of the same tokens give the same lines, as sets of tokens.
\* Every permutation is a chain of swaps of neighbours, and every order of
\* the tokens is an argument of some call; the tokens are of positive
\* height.
C20_GroupingIndependentOfOrder ==
    (order_pc = "done" /\ \A i \in TokenIndices : HeightOf(i) > 0) =>
        \A k \in 0..(Len(polygons) - 2) :
            LinesAsSets(order_polygons(Permuted(SwapAt(k))), SwapAt(k))
                = LinesAsSets(ordered_text, Identity)

\* The bands agree on which tokens belong together: being in a token's band
\* is symmetric and transitive.
BandsAgree ==
    /\ \A a, b \in TokenIndices : InBand(a, b) => InBand(b, a)
    /\ \A a, b, c \in TokenIndices : (InBand(a, b) /\ InBand(b, c)) => InBand(a, c)

\* The grouping does not depend on the order when the bands agree.
OrderIndependentWhenBandsAgree ==
    (order_pc = "done" /\ BandsAgree) =>
        \A k \in 0..(Len(polygons) - 2) :
            LinesAsSets(order_polygons(Permuted(SwapAt(k))), SwapAt(k))
                = LinesAsSets(ordered_text, Identity)

\* What the call returns is what order_polygons gives for its argument.
ReturnsOrderPolygons ==
    order_pc = "done" => ordered_text = order_polygons(polygons)

RECURSIVE SumOver(_, _)
SumOver(line, m) ==
    IF m = 0 THEN 0 ELSE TwiceYc(line[m]) + SumOver(line, m - 1)

\* Twice the sum of the y centroids of the tokens of a line.
TwiceYcSum(line) == SumOver(line, Len(line))

\* The vertical centroid of the first line, the mean of the y centroids of
\* its tokens, is not greater than that of the second.
NotBelow(first, second) ==
    TwiceYcSum(first) * Len(second) <= TwiceYcSum(second) * Len(first)

\* C21: the lines are returned from top to bottom: of two consecutive lines
\* the vertical centroid of the first is not greater than that of the
\* second, whatever the order of the tokens in the argument.
C21_LinesTopToBottom ==
    (order_pc = "done" /\ \A i \in TokenIndices : HeightOf(i) > 0) =>
        \A k \in 1..(Len(ordered_text) - 1) :
            NotBelow(ordered_text[k], ordered_text[k + 1])

\* The tokens are given from top to bottom: by non-decreasing y centroid.
GivenTopToBottom ==
    \A i, j \in TokenIndices : i < j => TwiceYc(i) <= TwiceYc(j)

\* All the tokens have the same, positive height.
EqualHeights ==
    \A i, j \in TokenIndices : HeightOf(i) = HeightOf(j) /\ HeightOf(i) > 0

\* The lines do come from top to bottom when the tokens are given so and
\* are of one height.
TopToBottomWhenGivenSo ==
    (order_pc = "done" /\ GivenTopToBottom /\ EqualHeights) =>
        \A k \in 1..(Len(ordered_text) - 1) :
            NotBelow(ordered_text[k], ordered_text[k + 1])

\* C27: the lines returned for one well-formed polygon or more partition
\* the token indices: every index 0..n-1 is in exactly one line, exactly
\* once; no line is empty and no other index appears.
C27_LinesPartitionTokens ==
    order_pc = "done" =>
        /\ \A k \in 1..Len(ordered_text) :
              /\ ordered_text[k] # <<>>
              /\ Range(ordered_text[k]) \subseteq TokenIndices
              /\ Cardinality(Range(ordered_text[k])) = Len(ordered_text[k])
        /\ \A i \in TokenIndices :
              Cardinality({k \in 1..Len(ordered_text) : i \in Range(ordered_text[k])}) = 1

\* Four tokens come back in three lines, one of them keyed by a token it
\* does not hold.
C27_Witness ==
    /\ order_pc = "done"
    /\ Len(polygons) = 4
    /\ Len(ordered_text) = 3
    /\ \E k \in 1..Len(ordered_text) :
          KeyOfLine(ordered_text[k]) \notin Range(ordered_text[k])

\* The tokens whose height y_4 - y_1 is negative.
NegativeHeight ==
    {i \in TokenIndices : ~Malformed(polygons[i + 1]) /\ HeightOf(i) < 0}

\* C28: a token of negative height is kept with that height and absorbs no
\* token: no other token is ever assigned to the group keyed by it; it is
\* itself absorbed by the first earlier token whose band holds its centroid.
C28_NegativeHeightAbsorbsNothing ==
    \A i \in NegativeHeight :
        /\ heights # <<>> => heights[i + 1] = Rat(HeightOf(i))
        /\ \A j \in Keys(line_groups) \ {i} : GroupOf(line_groups, j) # i
        /\ (Grouped /\ EarlierInBand(i) # {}) =>
               GroupOf(line_groups, i) = SetMin(EarlierInBand(i))

\* A token of negative height is followed by a token whose centroid is
\* within 0.3 times that height of its own and that is not absorbed at all,
\* and another token of negative height is absorbed by an earlier token.
C28_Witness ==
    /\ order_pc = "done"
    /\ \E i \in NegativeHeight : \E j \in TokenIndices :
          /\ i < j
          /\ 10 * TwiceYc(i) + 6 * HeightOf(i) <= 10 * TwiceYc(j)
          /\ 10 * TwiceYc(j) <= 10 * TwiceYc(i) - 6 * HeightOf(i)
          /\ GroupOf(line_groups, j) = j
    /\ \E i \in NegativeHeight : GroupOf(line_groups, i) < i

\* The malformed tokens of the argument.
MalformedTokens == {i \in TokenIndices : Malformed(polygons[i + 1])}

\* The errors a call on a malformed token may end in: the MalformedGeometry
\* of the claim, or the errors Python raises by itself.
GeometryErrors == {"MalformedGeometry", "ValueError", "TypeError"}

\* C22: a token whose polygon is not four points, or has a coordinate that
\* is not a number, makes order_polygons fail with an error for the
\* malformed geometry, the same way for every malformed input: here, by
\* ending the whole call with no lines returned.
C22_MalformedGeometryError ==
    (OrderOver /\ MalformedTokens # {}) =>
        /\ order_pc = "raised"
        /\ order_error.kind \in GeometryErrors
        /\ ordered_text = <<>>

\* A polygon that cannot be unpacked into four points of two coordinates
\* ends the whole call with Python's ValueError.
BadShapeRaisesValueError ==
    (OrderOver /\ \E i \in 1..Len(polygons) : UnpackError(polygons[i]) # NoError) =>
        /\ order_pc = "raised"
        /\ order_error.kind = "ValueError"
        /\ ordered_text = <<>>

\* A coordinate that is not a number ends the call with Python's TypeError
\* when it is one of x_1, x_4, y_1, y_2, y_4.
ReadNonNumericRaisesTypeError ==
    (/\ OrderOver
     /\ \A i \in 1..Len(polygons) : UnpackError(polygons[i]) = NoError
     /\ \E i \in 1..Len(polygons) :
           NonNumeric \in {polygons[i][1][1], polygons[i][4][1], polygons[i][1][2],
                           polygons[i][2][2], polygons[i][4][2]}) =>
        /\ order_pc = "raised"
        /\ order_error.kind = "TypeError"

(***************************************************************************)
(* SplitCalculator against calculate_splits.                               *)
(***************************************************************************)
\* The arguments a SplitCalculator was constructed with, as a request of
\* calculate_splits.
ArgumentsOf(self) ==
    [item_names |-> self.item_names, item_people |-> self.item_people,
     item_amounts |-> self.item_amounts, total |-> self.receipt_total,
     tip |-> self.receipt_tip, tax |-> self.receipt_tax,
     people_list |-> self.people_list,
     tip_split_proportionally |-> self.tip_split_proportionally,
     tax_split_proportionally |-> self.tax_split_proportionally,
     cashback_discount |-> self.cashback_discount,
     return_detailed_table |-> self.return_detailed_table]

\* The locals of calculate_splits for a request it computes a table for.
CoreLocals(r) ==
    LET arrays == SplitArrays(r.item_people, r.people_list)
        amounts == SplitAmounts(arrays, r.item_amounts)
        subtotals == SplitSubtotals(amounts)
        sub == Subtotal(r.total, r.tip, r.tax)
        n == Len(r.people_list)
        tips == [j \in 1..Len(subtotals) |->
                    TipShare(subtotals[j], sub, r.tip, r.tax, n,
                             r.tip_split_proportionally)]
        taxes == [j \in 1..Len(subtotals) |->
                     TaxShare(subtotals[j], sub, r.tip, r.tax, n,
                              r.tax_split_proportionally)]
        pre == SplitTotalsPreCashback(subtotals, tips, taxes)
    IN  [split_amounts |-> amounts, split_subtotals |-> subtotals,
         subtotal |-> sub, split_tips |-> tips, split_taxes |-> taxes,
         split_cashback |-> [j \in 1..Len(pre) |-> Cashback(pre[j], r.cashback_discount)],
         split_totals_post_cashback |->
             [j \in 1..Len(pre) |-> PostCashback(pre[j], r.cashback_discount)]]

\* Whether calculate_splits raises ZeroDivisionError on the request.
CoreDivisionRaises(r) ==
    LET l == CoreLocals(r)
    IN  \/ ShareRaises(l.split_subtotals, l.subtotal, Len(r.people_list),
                       r.tip_split_proportionally)
        \/ ShareRaises(l.split_subtotals, l.subtotal, Len(r.people_list),
                       r.tax_split_proportionally)

\* The table calculate_splits returns for the request.
CoreTable(r) ==
    LET l == CoreLocals(r)
        full == FullCalculation(
                    Frame(FirstColNames(r.item_names),
                          Splits(l.split_amounts, l.split_subtotals, l.split_tips,
                                 l.split_taxes, l.split_cashback,
                                 l.split_totals_post_cashback),
                          HorizontalTotals(r.item_amounts, l.subtotal, r.tip, r.tax,
                                           l.split_cashback,
                                           l.split_totals_post_cashback)))
    IN  IF r.return_detailed_table
        THEN [kind |-> "detailed", rows |-> full,
              columns |-> <<"Item">> \o r.people_list \o <<"Total">>]
        ELSE [kind |-> "simple", rows |-> SimpleCalculation(full, r.people_list),
              columns |-> <<"Person", "Split">>]

\* The table calculate_splits returns is the one its steps build, as a
\* function of the request.
ReturnedTableIsCoreTable == pc = "done" => result = CoreTable(req)

ForwardOver == calc_pc \in {"returned", "raised"} /\ ForwardWasCalled

\* amount split in proportion to the subtotals, or in equal parts over the
\* participants, as the flag says.
DistributeBy(proportionally, self, amount, subtotals) ==
    [j \in 1..Len(subtotals) |->
        IF proportionally
        THEN RMul(RDiv(subtotals[j], self.subtotal), amount)
        ELSE RDiv(amount, Rat(Len(self.people_list)))]

\* C24: in forward the tip is split proportionally exactly when
\* tip_split_proportionally is true, and the tax exactly when
\* tax_split_proportionally is true.
C24_TipAndTaxFollowOwnFlags ==
    (/\ ForwardOver
     /\ calc_error # ZeroDivisionError
     /\ ~ValidateSplitsRaises(calculator)
     /\ calculator.subtotal # Zero) =>
        /\ forward_locals.split_tips =
               DistributeBy(calculator.tip_split_proportionally, calculator,
                            calculator.receipt_tip, forward_locals.split_subtotals)
        /\ forward_locals.split_taxes =
               DistributeBy(calculator.tax_split_proportionally, calculator,
                            calculator.receipt_tax, forward_locals.split_subtotals)

\* The tax of forward does follow the tax flag.
TaxFollowsTaxFlag ==
    (ForwardOver /\ calc_error # ZeroDivisionError) =>
        forward_locals.split_taxes =
            DistributeBy(calculator.tax_split_proportionally, calculator,
                         calculator.receipt_tax, forward_locals.split_subtotals)

\* C23: the computation is pure: two calls of forward on equal arguments
\* give equal results, whatever ran between them.
C23_ForwardIsPure ==
    (ForwardOver /\ previous_outcome # NotCalled) =>
        ForwardOutcome = previous_outcome

\* calculate_splits reads its arguments only: its table is a function of
\* the request, as ReturnedTableIsCoreTable says, and its request is left
\* as it was given.
CalculateSplitsLeavesRequest ==
    [][pc \notin {"idle"} /\ pc' # "idle" => req' = req]_vars

\* C25: forward returns the table that calculate_splits returns for the
\* arguments the object was constructed with, and only for a request whose
\* items all have participants.
C25_ForwardReturnsTheSplits ==
    calc_pc = "returned" =>
        /\ ~ValidateSplitsRaises(calculator)
        /\ forward_result = CoreTable(ArgumentsOf(calculator))

\* forward returns nothing, whatever the request.
ForwardReturnsNone == calc_pc = "returned" => forward_result = None

\* Whether calculate_splits of the core can fail inside polars on the
\* request: a frame of no item, or a participant named as a column.
CorePolarsMayRaise(r) ==
    \/ CoreLocals(r).split_amounts = <<>>
    \/ DuplicateColumns(r.people_list)

UiOver == ui_pc \in {"returned", "raised"}

\* C26: for a request whose items all have participants the copy in the
\* user interface computes the table the core computes (and fails where
\* the core fails); for one with an unassigned item it computes no
\* allocation, returns a hidden empty table and warns with exactly the
\* unassigned names, with which the core raises IncompleteSplitError.
C26_UiCopyAgreesWithCore ==
    UiOver =>
        IF Validated(ui_req)
        THEN /\ ui_warning = NoWarning
             /\ ui_pc = "returned" =>
                    /\ ui_result = DataFrame(CoreTable(ui_req), TRUE)
                    /\ ~CoreDivisionRaises(ui_req)
             /\ ui_pc = "raised" =>
                    \/ ui_error = ZeroDivisionError /\ CoreDivisionRaises(ui_req)
                    \/ /\ ui_error = PolarsError
                       /\ ~CoreDivisionRaises(ui_req)
                       /\ CorePolarsMayRaise(ui_req)
        ELSE /\ ui_pc = "returned"
             /\ ui_result = DataFrame(EmptyFrame, FALSE)
             /\ ui_warning.message =
                    "Pending splits: "
                        \o Join(NamesOfEmpty(ui_req.item_names, ui_req.item_people), ",")
             /\ ui_locals = [unsplit_names |->
                                NamesOfEmpty(ui_req.item_names, ui_req.item_people)]
             /\ LET done == ValidateLoop(ui_req.item_names, ui_req.item_people,
                                         1, 0, <<>>)
                IN  /\ Incomplete(done[1], Len(ui_req.item_people))
                    /\ IncompleteSplitError(done[2]) =
                           IncompleteSplitError(
                               NamesOfEmpty(ui_req.item_names, ui_req.item_people))

\* The copy showed a table of two participants with an equal tip split, and
\* the tip is not the tax.
C26_Witness ==
    /\ ui_pc = "returned"
    /\ Validated(ui_req)
    /\ ui_result.visible
    /\ Len(ui_req.people_list) = 2
    /\ Len(ui_req.item_names) = 2
    /\ ~ui_req.tip_split_proportionally
    /\ ui_req.tip # ui_req.tax

\* The copy warned about an unassigned item and showed nothing.
UiWarned ==
    /\ ui_pc = "returned"
    /\ ~Validated(ui_req)
    /\ ~ui_result.visible
    /\ ui_warning # NoWarning

(***************************************************************************)
(* The people textbox, by positions in the text.                           *)
(***************************************************************************)
Commas(text) == {i \in 1..Len(text) : text[i] = ","}

\* The position of the k-th comma of the text; 0 before the first and
\* Len(text) + 1 after the last.
CommaAt(text, k) ==
    IF k = 0 THEN 0
    ELSE IF k > Cardinality(Commas(text)) THEN Len(text) + 1
    ELSE CHOOSE i \in Commas(text) :
             Cardinality({j \in Commas(text) : j <= i}) = k

\* The k-th name of the text, without the blanks around it: from the first
\* to the last character that is not a blank between two commas.
NameAt(text, k) ==
    LET from == CommaAt(text, k - 1) + 1
        to == CommaAt(text, k) - 1
        inked == {i \in from..to : text[i] # " "}
    IN  IF inked = {}
        THEN <<>>
        ELSE SubSeq(text, CHOOSE i \in inked : \A j \in inked : i <= j,
                          CHOOSE i \in inked : \A j \in inked : j <= i)

Accepted(text) == Commas(text) # {} /\ Len(text) \notin Commas(text)

\* C29: the uploader is interactive exactly when the text last submitted
\* has a comma and does not end with one; an accepted submission stores the
\* names between the commas without the blanks around them, a rejected one
\* stores [] and warns; before any submission the uploader is not
\* interactive and the list is [].
C29_UploaderFollowsLastSubmission ==
    /\ ~submitted => (~image_uploader.interactive /\ people_state = <<>>)
    /\ submitted =>
          /\ image_uploader.interactive <=> Accepted(people_textbox)
          /\ Accepted(people_textbox) =>
                /\ Len(people_state) = Cardinality(Commas(people_textbox)) + 1
                /\ \A k \in 1..Len(people_state) :
                       people_state[k] = NameAt(people_textbox, k)
                /\ people_warning = ""
          /\ ~Accepted(people_textbox) =>
                /\ people_state = <<>>
                /\ people_warning = NeedNames

\* An accepted text with a blank after a name: "a ,b".
C29_Witness ==
    /\ submitted
    /\ people_textbox = <<"a", " ", ",", "b">>
    /\ image_uploader.interactive
    /\ people_state = <<<<"a">>, <<"b">>>>

\* A rejected submission after an accepted one resets the list.
C29_ResetOnRejection ==
    [][(submitted /\ image_uploader.interactive /\ ~Accepted(people_textbox'))
          => (people_state' = <<>> /\ ~image_uploader'.interactive)]_vars

(***************************************************************************)
(* LLMExtractor.extract_fields.                                            *)
(***************************************************************************)
LlmOver == llm_pc # "idle"

ChatReplied == LlmOver /\ llm_error # ResponseError

ValidJson(message) == JsonLoads(message).ok

\* The parsed reply, or its entry under the key asked for.
Extracted(message, key) ==
    IF key = NoKey
    THEN JsonLoads(message).value
    ELSE Lookup(JsonLoads(message).value.items, key[1])

\* C30: extract_fields returns the default exactly when a structured format
\* was asked for and the reply is not valid JSON; for a reply that is valid
\* JSON it returns the parsed value, or its entry under key_to_extract, and
\* never the default; an error of the chat function reaches the caller.
C30_DefaultOnlyForInvalidJson ==
    /\ (LlmOver /\ ~ChatReplied) => (llm_pc = "raised" /\ llm_error = ResponseError)
    /\ ChatReplied =>
          /\ (llm_call.structured /\ ~ValidJson(llm_reply)) =>
                 /\ llm_pc = "returned default"
                 /\ llm_result = llm_call.default_value
          /\ (llm_call.structured /\ ValidJson(llm_reply)) =>
                 /\ llm_pc \in {"returned default", "returned output"}
                 /\ llm_result = Extracted(llm_reply, llm_call.key_to_extract)
          /\ ~llm_call.structured => llm_pc # "returned default"

\* An error of the chat function is not caught.
ChatErrorsPropagate ==
    (LlmOver /\ llm_error = ResponseError) => (llm_pc = "raised" /\ llm_result = NoValue)

\* A reply that is not valid JSON gives the default when a format was
\* asked for, and nothing is raised.
InvalidJsonGivesDefault ==
    (ChatReplied /\ llm_call.structured /\ ~ValidJson(llm_reply)) =>
        /\ llm_pc = "returned default"
        /\ llm_result = llm_call.default_value
        /\ llm_error = NoError

\* The value asked for is there: the reply parses to something other than
\* None and, with a key, to a dict that has the key.
ValuePresent(message, key) ==
    /\ ValidJson(message)
    /\ JsonLoads(message).value # PyNone
    /\ key # NoKey =>
          /\ JsonLoads(message).value.type = "dict"
          /\ HasKey(JsonLoads(message).value.items, key[1])

\* A reply that holds the value asked for gives that value.
PresentValueIsReturned ==
    (ChatReplied /\ llm_call.structured
        /\ ValuePresent(llm_reply, llm_call.key_to_extract)) =>
        /\ llm_pc = "returned output"
        /\ llm_result = Extracted(llm_reply, llm_call.key_to_extract)

\* The default is returned for valid JSON too: the reply null.
NullGivesDefault ==
    (ChatReplied /\ llm_call.structured /\ llm_reply = <<"null">>) =>
        llm_pc = "returned default"

\* A valid reply without the key raises KeyError, and one that is no dict
\* raises TypeError.
MissingKeyRaises ==
    (/\ ChatReplied
     /\ llm_call.structured
     /\ ValidJson(llm_reply)
     /\ JsonLoads(llm_reply).value # PyNone
     /\ ~ValuePresent(llm_reply, llm_call.key_to_extract)) =>
        /\ llm_pc = "raised"
        /\ llm_error.kind \in {"KeyError", "TypeError"}

====
